---- MODULE Spec2Model ----
(***************************************************************************)
(* A model of the agent-sessions analytics tools:                          *)
(*   tools/analytics/discover_fields.py   (FieldCatalog, scan_json_object) *)
(*   tools/analytics/prototype_metrics.py (SessionMetrics,                 *)
(*                                         parse_codex_session)            *)
(*   tools/list-claude-sessions.py        (ClaudeSession._parse_timestamp) *)
(*   tools/pick_claude_sessions.py        (ts_of_event)                    *)
(*                                                                         *)
(* The four tools are separate programs.  Each has its own specification   *)
(* (SpecCatalog, SpecCodex, SpecMetrics, SpecTimestamp); the variables of  *)
(* the other tools stay at their idle values.                              *)
(*                                                                         *)
(* Python values are modelled as follows.  A str is a TLA+ string, so len, *)
(* slicing and + are Len, SubSeq and \o.  A JSON value is a record tagged   *)
(* with its Python type name in field k.  None is [k |-> "NoneType"].  A   *)
(* dict keeps its items as a sequence of <<key, value>> pairs in insertion *)
(* order.                                                                  *)
(***************************************************************************)
EXTENDS Integers, Sequences, FiniteSets, TLC

VARIABLES
    catalog,      \* discover_fields: the FieldCatalog (fields, sessions_scanned)
    scan,         \* discover_fields: position of the discover_* loop
    seen_in,      \* history: path -> the session ordinals in which it was recorded
    snapshot,     \* history: the catalog when the current/last file was opened
    outcome,      \* history: how the last file ended ("none", "ok", "failed")
    raw,          \* timestamp resolver: the raw epoch value t under test
    parsed,       \* results of ClaudeSession._parse_timestamp on t, t*1000, t*10^6
    picked,       \* results of ts_of_event on events carrying t, t*1000, t*10^6
    cx,           \* parse_codex_session: where the call stands
    events,       \* parse_codex_session: the events list
    session_data, \* parse_codex_session: the record being built
    returned,     \* parse_codex_session: the value returned
    metrics,      \* SessionMetrics: sessions, by_agent, by_project
    report,       \* SessionMetrics: what the last call returned
    probe,        \* timestamp extraction: the event under test
    extracted,    \* what ClaudeSession._extract_timestamp made of the event
    chosen,       \* what ts_of_event made of the event
    resolved,     \* the last call of ClaudeSession._parse_timestamp: value, result
    claude_file,  \* ClaudeSession.parse: the lines of the file at self.filepath
    claude,       \* ClaudeSession.parse: the object, the position, the outcome
    codex_files,  \* collect_sample_sessions: the files of the batch, in order
    collect       \* collect_sample_sessions: the position, the sessions list

catVars == <<catalog, scan, seen_in, snapshot, outcome>>
tsVars == <<raw, parsed, picked>>
cxVars == <<cx, events, session_data, returned>>
mVars == <<metrics, report>>
exVars == <<probe, extracted, chosen, resolved>>
clVars == <<claude_file, claude>>
coVars == <<codex_files, collect>>

vars == <<catalog, scan, seen_in, snapshot, outcome, raw, parsed, picked,
          cx, events, session_data, returned, metrics, report,
          probe, extracted, chosen, resolved, claude_file, claude,
          codex_files, collect>>

\* the variables of the other tools, which a tool's steps leave alone
notCatalog == <<tsVars, cxVars, mVars, exVars, clVars, coVars>>
notTimestamp == <<catVars, cxVars, mVars, exVars, clVars, coVars>>
notCodex == <<catVars, tsVars, mVars, exVars, clVars, coVars>>
notMetrics == <<catVars, tsVars, cxVars, exVars, clVars, coVars>>
notExtraction == <<catVars, tsVars, cxVars, mVars, clVars, coVars>>
notClaude == <<catVars, tsVars, cxVars, mVars, exVars, coVars>>
notCollect == <<catVars, tsVars, cxVars, mVars, exVars, clVars>>

(***************************************************************************)
(* Bounds of the model.                                                    *)
(***************************************************************************)
MaxFiles == 3
MaxLines == 1
MaxMant == 12
MaxExp == 12
MaxEvents == 3
MaxSessions == 4
MaxClaudeLines == 2
MaxBatch == 3

(***************************************************************************)
(* Python values.                                                          *)
(***************************************************************************)
None == [k |-> "NoneType"]
PyStr(s) == [k |-> "str", s |-> s]
PyInt(n) == [k |-> "int", n |-> n]
PyBool(b) == [k |-> "bool", b |-> b]
\* an int too wide for the model checker's integers: m * 10^e
PyBig(m, e) == [k |-> "int", m |-> m, e |-> e]
PyDict(items) == [k |-> "dict", items |-> items]
PyList(items) == [k |-> "list", items |-> items]

Min(a, b) == IF a < b THEN a ELSE b
Max(a, b) == IF a > b THEN a ELSE b

\* c * n
RECURSIVE Repeat(_, _)
Repeat(c, n) ==
    IF n = 0 THEN ""
    ELSE IF n = 1 THEN c
    ELSE Repeat(c, n \div 2) \o Repeat(c, n - (n \div 2))

\* repr(value) / str(value): str() of a str is the str itself, repr() quotes it;
\* containers render their elements with repr().
RECURSIVE pyrepr(_), repr_items(_, _), repr_elems(_, _)
pyrepr(value) ==
    CASE value.k = "str" -> "'" \o value.s \o "'"
      [] value.k = "int" /\ "n" \in DOMAIN value -> ToString(value.n)
      [] value.k = "int" /\ "n" \notin DOMAIN value ->
            ToString(value.m) \o Repeat("0", value.e)
      [] value.k = "bool" -> IF value.b THEN "True" ELSE "False"
      [] value.k = "NoneType" -> "None"
      [] value.k = "dict" -> "{" \o repr_items(value.items, 1) \o "}"
      [] value.k = "list" -> "[" \o repr_elems(value.items, 1) \o "]"

repr_items(items, i) ==
    IF i > Len(items) THEN ""
    ELSE (IF i > 1 THEN ", " ELSE "")
         \o "'" \o items[i][1] \o "': " \o pyrepr(items[i][2])
         \o repr_items(items, i + 1)

repr_elems(items, i) ==
    IF i > Len(items) THEN ""
    ELSE (IF i > 1 THEN ", " ELSE "")
         \o pyrepr(items[i]) \o repr_elems(items, i + 1)

pystr(value) == IF value.k = "str" THEN value.s ELSE pyrepr(value)

(***************************************************************************)
(* discover_fields.py: FieldCatalog                                        *)
(***************************************************************************)
ExampleLimit == 200
MaxExamples == 3
ListSample == 5

\* FieldCatalog.__init__: the defaultdict's default Field Record
NewField ==
    [type |-> {}, count |-> 0, total_sessions |-> 0,
     examples |-> <<>>, always_present |-> TRUE]

NewCatalog == [fields |-> <<>>, sessions_scanned |-> 0]

InSeq(x, s) == \E i \in 1..Len(s) : s[i] = x

\* self.fields[path] on the defaultdict
FieldOf(cat, path) ==
    IF path \in DOMAIN cat.fields THEN cat.fields[path] ELSE NewField

\* FieldCatalog.add_field
add_field(cat, path, value, session_num) ==
    LET info == FieldOf(cat, path)
        full == pystr(value)
        example_str == IF Len(full) > ExampleLimit
                       THEN SubSeq(full, 1, ExampleLimit) \o "..."
                       ELSE full
        examples == IF Len(info.examples) < MaxExamples
                       /\ ~InSeq(example_str, info.examples)
                    THEN Append(info.examples, example_str)
                    ELSE info.examples
        updated == [info EXCEPT !.count = @ + 1,
                                !.type = @ \cup {value.k},
                                !.examples = examples]
    IN  [cat EXCEPT !.fields =
            [p \in DOMAIN cat.fields \cup {path} |->
                IF p = path THEN updated ELSE cat.fields[p]]]

\* a mark_session that counts the session and leaves the records as they are
mark_session_counter_only(cat) ==
    [cat EXCEPT !.sessions_scanned = @ + 1]

\* a mark_session that recomputes the flag from the occurrence count
\* ("count equals the number of boundaries marked") instead of latching it
mark_session_recount(cat) ==
    LET n == cat.sessions_scanned + 1
    IN  [fields |-> [p \in DOMAIN cat.fields |->
                        [cat.fields[p] EXCEPT
                            !.always_present = (cat.fields[p].count = n),
                            !.total_sessions = n]],
         sessions_scanned |-> n]

\* FieldCatalog.mark_session
mark_session(cat) ==
    LET n == cat.sessions_scanned + 1
    IN  [fields |-> [p \in DOMAIN cat.fields |->
                        [cat.fields[p] EXCEPT
                            !.always_present =
                                IF cat.fields[p].total_sessions < n
                                THEN FALSE ELSE @,
                            !.total_sessions = n]],
         sessions_scanned |-> n]

\* scan_json_object
RECURSIVE scan_json_object(_, _, _, _), scan_dict(_, _, _, _, _),
          scan_list(_, _, _, _, _)
\* scan_json_object visiting every element of a list
scan_json_object_whole_list(obj, cat, session_num, prefix) ==
    CASE obj.k = "dict" -> scan_dict(obj.items, 1, cat, session_num, prefix)
      [] obj.k = "list" -> scan_list(obj.items, 1, cat, session_num, prefix \o "[]")
      [] OTHER -> cat

scan_json_object(obj, cat, session_num, prefix) ==
    CASE obj.k = "dict" -> scan_dict(obj.items, 1, cat, session_num, prefix)
      [] obj.k = "list" ->
            scan_list(SubSeq(obj.items, 1, Min(ListSample, Len(obj.items))), 1,
                      cat, session_num, prefix \o "[]")
      [] OTHER -> cat

scan_dict(items, i, cat, session_num, prefix) ==
    IF i > Len(items) THEN cat
    ELSE LET key == items[i][1]
             value == items[i][2]
             path == IF prefix # "" THEN prefix \o "." \o key ELSE key
             added == add_field(cat, path, value, session_num)
             nested == IF value.k \in {"dict", "list"}
                       THEN scan_json_object(value, added, session_num, path)
                       ELSE added
         IN  scan_dict(items, i + 1, nested, session_num, prefix)

scan_list(items, i, cat, session_num, prefix) ==
    IF i > Len(items) THEN cat
    ELSE scan_list(items, i + 1,
                   scan_json_object(items[i], cat, session_num, prefix),
                   session_num, prefix)

(***************************************************************************)
(* The lines a session file can hold: JSON documents, and a line that      *)
(* json.loads rejects.                                                     *)
(***************************************************************************)
LongText == Repeat("x", ExampleLimit + 1)

MalformedLine == [k |-> "malformed"]

SampleLines ==
    { PyDict(<< <<"a", PyStr("u")>> >>),
      PyDict(<< <<"b", PyList(<< PyDict(<< <<"a", PyInt(7)>> >>), PyStr("v") >>)>> >>),
      PyDict(<< <<"a", PyStr(LongText)>>, <<"c", PyDict(<< <<"a", None>> >>)>> >>),
      MalformedLine }

\* the paths whose occurrence count grew from catalog old to catalog new
Recorded(old, new) ==
    { p \in DOMAIN new.fields :
        p \notin DOMAIN old.fields \/ new.fields[p].count > old.fields[p].count }

(***************************************************************************)
(* discover_codex_sessions / discover_claude_sessions: the loop over the   *)
(* sample files.                                                           *)
(***************************************************************************)
CatalogInit ==
    /\ catalog = NewCatalog
    /\ scan = [status |-> "idle", file |-> 0, lines |-> 0]
    /\ seen_in = <<>>
    /\ snapshot = NewCatalog
    /\ outcome = "none"

\* with open(session_file, 'r') as f:
OpenFile ==
    /\ scan.status = "idle"
    /\ scan.file < MaxFiles
    /\ scan' = [status |-> "reading", file |-> scan.file, lines |-> 0]
    /\ snapshot' = catalog
    /\ UNCHANGED <<catalog, seen_in, outcome>>
    /\ UNCHANGED notCatalog

\* one iteration of "for line_num, line in enumerate(f)"
ScanLine(line) ==
    /\ scan.status = "reading"
    /\ scan.lines < MaxLines
    /\ LET scanned == IF line = MalformedLine THEN catalog
                      ELSE scan_json_object(line, catalog, scan.file, "")
           ordinal == catalog.sessions_scanned + 1
       IN  /\ catalog' = scanned
           /\ seen_in' =
                [p \in DOMAIN scanned.fields |->
                    (IF p \in DOMAIN seen_in THEN seen_in[p] ELSE {})
                    \cup (IF p \in Recorded(catalog, scanned)
                          THEN {ordinal} ELSE {})]
    /\ scan' = [scan EXCEPT !.lines = @ + 1]
    /\ UNCHANGED <<snapshot, outcome>>
    /\ UNCHANGED notCatalog

\* the file is exhausted: catalog.mark_session()
CloseFile ==
    /\ scan.status = "reading"
    /\ catalog' = mark_session(catalog)
    /\ scan' = [status |-> "idle", file |-> scan.file + 1, lines |-> 0]
    /\ outcome' = "ok"
    /\ UNCHANGED <<seen_in, snapshot>>
    /\ UNCHANGED notCatalog

\* the read raises part-way through the file: "except Exception" reports it
\* and the loop moves to the next file without mark_session
ReadError ==
    /\ scan.status = "reading"
    /\ scan' = [status |-> "idle", file |-> scan.file + 1, lines |-> 0]
    /\ outcome' = "failed"
    /\ UNCHANGED <<catalog, seen_in, snapshot>>
    /\ UNCHANGED notCatalog

CatalogNext ==
    \/ OpenFile
    \/ \E line \in SampleLines : ScanLine(line)
    \/ CloseFile
    \/ ReadError

(***************************************************************************)
(* The same loop over files whose lines hold lists of more than ListSample *)
(* elements.                                                               *)
(***************************************************************************)
KeyedElement(key, n) == PyDict(<< <<key, PyInt(n)>> >>)

ListLines ==
    { PyDict(<< <<"items", PyList(<< KeyedElement("a", 1),
                                     PyDict(<< <<"a", PyStr("s")>> >>),
                                     PyDict(<< <<"a", PyInt(2)>>, <<"b", None>> >>),
                                     KeyedElement("a", 3), KeyedElement("a", 4),
                                     PyDict(<< <<"a", PyInt(5)>>,
                                               <<"z", PyStr("late")>> >>) >>)>> >>),
      PyDict(<< <<"m", PyList(<< PyList(<< KeyedElement("k", 1),
                                           KeyedElement("k", 2) >>),
                                 PyInt(7), PyStr("t") >>)>> >>),
      PyList(<< KeyedElement("q", 1), KeyedElement("q", 2), KeyedElement("q", 3),
                KeyedElement("q", 4), KeyedElement("q", 5), KeyedElement("q", 6),
                KeyedElement("z", 7) >>),
      MalformedLine }

ListsNext ==
    \/ OpenFile
    \/ \E line \in ListLines : ScanLine(line)
    \/ CloseFile
    \/ ReadError

(***************************************************************************)
(* Properties of the Field Catalog.                                        *)
(***************************************************************************)
\* how often a scan of obj under prefix meets path p: a key of a dict under
\* the prefix joined to the key, the first ListSample elements of a list
\* under the prefix suffixed with "[]", later elements not at all
RECURSIVE Occurs(_, _, _), OccursFrom(_, _, _, _)
Occurs(obj, prefix, p) ==
    IF obj.k \in {"dict", "list"} THEN OccursFrom(obj, 1, prefix, p) ELSE 0

OccursFrom(obj, i, prefix, p) ==
    IF i > Len(obj.items) THEN 0
    ELSE IF obj.k = "list"
    THEN IF i > ListSample THEN 0
         ELSE Occurs(obj.items[i], prefix \o "[]", p) + OccursFrom(obj, i + 1, prefix, p)
    ELSE LET path == IF prefix = "" THEN obj.items[i][1]
                     ELSE prefix \o "." \o obj.items[i][1]
         IN  (IF path = p THEN 1 ELSE 0)
             + Occurs(obj.items[i][2], path, p)
             + OccursFrom(obj, i + 1, prefix, p)

CountOf(cat, p) == IF p \in DOMAIN cat.fields THEN cat.fields[p].count ELSE 0

\* the paths that only elements after the fifth of a list could give
LatePaths == {"items[].z", "[].z"}

\* C23: scanning a line raises the count of a path by the number of times the
\* path is met among the keys of its dicts and the first 5 elements of its
\* lists, each element scanned under the list's path suffixed with "[]";
\* elements after the fifth add no Field Record and change no count
C23_ListsSampledUnderOnePath ==
    [][\A line \in ListLines \ {MalformedLine} :
          ScanLine(line) =>
              /\ \A p \in DOMAIN catalog'.fields \cup LatePaths :
                    CountOf(catalog', p) = CountOf(catalog, p) + Occurs(line, "", p)
              /\ \A p \in LatePaths : p \notin DOMAIN catalog'.fields]_vars

\* C25: mark_session raises sessions_scanned by exactly 1, adds and removes no
\* path, leaves the count, the type set and the examples of every path as
\* they are and sets every path's total_sessions to sessions_scanned; the scan
\* of a line leaves sessions_scanned as it is and raises the count of each
\* path by the number of add_field calls made for it
C25_MarkSessionAndAddFieldFrames ==
    [][/\ CloseFile =>
            /\ catalog'.sessions_scanned = catalog.sessions_scanned + 1
            /\ DOMAIN catalog'.fields = DOMAIN catalog.fields
            /\ \A p \in DOMAIN catalog.fields :
                  /\ catalog'.fields[p].count = catalog.fields[p].count
                  /\ catalog'.fields[p].type = catalog.fields[p].type
                  /\ catalog'.fields[p].examples = catalog.fields[p].examples
                  /\ catalog'.fields[p].total_sessions = catalog'.sessions_scanned
       /\ \A line \in SampleLines \ {MalformedLine} :
            ScanLine(line) =>
                /\ catalog'.sessions_scanned = catalog.sessions_scanned
                /\ \A p \in DOMAIN catalog'.fields :
                      CountOf(catalog', p) = CountOf(catalog, p) + Occurs(line, "", p)]_vars

\* a session has been marked, every path carries its number, and a path has
\* been recorded more often than sessions were scanned
C25_Witness ==
    /\ outcome = "ok"
    /\ scan.status = "idle"
    /\ catalog.sessions_scanned >= 1
    /\ \A p \in DOMAIN catalog.fields :
          catalog.fields[p].total_sessions = catalog.sessions_scanned
    /\ \E p \in DOMAIN catalog.fields :
          catalog.fields[p].count > catalog.sessions_scanned

\* a list of more than 5 elements has been scanned: its first five elements
\* are counted under one path and its sixth left no record
C23_Witness ==
    /\ "items[].a" \in DOMAIN catalog.fields
    /\ catalog.fields["items[].a"].count = ListSample
    /\ catalog.fields["items"].count = 1
    /\ "items[].b" \in DOMAIN catalog.fields
    /\ "items[].z" \notin DOMAIN catalog.fields

\* the path was recorded in every session marked so far
InEverySession(p) ==
    \A n \in 1..catalog.sessions_scanned : n \in seen_in[p]

\* C2: right after a mark_session, the always_present flag of a path is true
\* if and only if the path occurred in every session marked so far.
C2_AlwaysPresentIffInEverySession ==
    (scan.status = "idle" /\ outcome = "ok") =>
        \A p \in DOMAIN catalog.fields :
            catalog.fields[p].always_present <=> InEverySession(p)

\* C3: a path recorded during session 1 and not during session 2 has
\* always_present = FALSE from the mark_session that closes session 2 on, in
\* every later state, whatever is recorded in sessions 3..N.
C3_MissedSessionNeverForgiven ==
    \A p \in DOMAIN seen_in :
        (1 \in seen_in[p] /\ 2 \notin seen_in[p] /\ catalog.sessions_scanned >= 2)
            => ~catalog.fields[p].always_present

\* C3 witness: the path came back in session 3, which has been marked
C3_Witness ==
    \E p \in DOMAIN seen_in :
        /\ 1 \in seen_in[p] /\ 2 \notin seen_in[p] /\ 3 \in seen_in[p]
        /\ catalog.sessions_scanned >= 3
        /\ scan.status = "idle"
        /\ ~catalog.fields[p].always_present

\* C10: a file whose read failed part-way leaves the catalog (Field Records
\* and sessions_scanned) as it was when the file was opened.
C10_FailedFileContributesNothing ==
    (scan.status = "idle" /\ outcome = "failed") => catalog = snapshot

\* C19: every example stored for a path has at most 200 characters, a path
\* holds at most 3 examples, and the examples of a path are pairwise distinct
C19_ExamplesShortFewDistinct ==
    \A p \in DOMAIN catalog.fields :
        LET examples == catalog.fields[p].examples
        IN  /\ \A i \in 1..Len(examples) : Len(examples[i]) <= ExampleLimit
            /\ Len(examples) <= MaxExamples
            /\ \A i, j \in 1..Len(examples) : examples[i] = examples[j] => i = j

(***************************************************************************)
(* Numbers wider than the model checker's integers.  A Num is the exact    *)
(* decimal m * 10^e, kept normalised (m not a multiple of 10, or 0 * 10^0).*)
(* Python's float division by 10^3 and 10^6 is taken as exact: the results *)
(* are compared as instants at datetime's microsecond resolution.          *)
(***************************************************************************)
RECURSIVE Pow10(_)
Pow10(n) == IF n = 0 THEN 1 ELSE 10 * Pow10(n - 1)

RECURSIVE NumNorm(_)
NumNorm(x) ==
    IF x.m = 0 THEN [m |-> 0, e |-> 0]
    ELSE IF x.m % 10 = 0 THEN NumNorm([m |-> x.m \div 10, e |-> x.e + 1])
    ELSE x

Num(m, e) == NumNorm([m |-> m, e |-> e])

\* x * 10^n (n < 0 divides)
NumScale(x, n) == NumNorm([m |-> x.m, e |-> x.e + n])

RECURSIVE NumDigits(_)
NumDigits(m) == IF m < 10 THEN 1 ELSE 1 + NumDigits(m \div 10)

\* a < b for normalised a, b > 0: by order of magnitude, then by mantissa
NumLtPos(a, b) ==
    LET oa == NumDigits(a.m) + a.e
        ob == NumDigits(b.m) + b.e
        lo == Min(a.e, b.e)
    IN  IF oa # ob THEN oa < ob
        ELSE a.m * Pow10(a.e - lo) < b.m * Pow10(b.e - lo)

NumNeg(x) == [m |-> -x.m, e |-> x.e]

NumLt(a, b) ==
    CASE a.m <= 0 /\ b.m > 0 -> a.m < b.m
      [] a.m > 0 /\ b.m <= 0 -> FALSE
      [] a.m <= 0 /\ b.m <= 0 ->
            IF a.m = 0 \/ b.m = 0 THEN a.m < b.m
            ELSE NumLtPos(NumNeg(b), NumNeg(a))
      [] OTHER -> NumLtPos(a, b)

\* the numeric value of an int, float or bool
NumOf(value) ==
    CASE value.k = "bool" -> Num(IF value.b THEN 1 ELSE 0, 0)
      [] "n" \in DOMAIN value -> Num(value.n, 0)
      [] OTHER -> Num(value.m, value.e)

(***************************************************************************)
(* datetime                                                                *)
(***************************************************************************)
\* A datetime: t is its wall-clock reading in seconds since 1970-01-01 00:00,
\* aware says whether it carries a UTC offset (tzinfo).
DateTime(t, aware) == [k |-> "datetime", t |-> t, aware |-> aware]

Raise(name) == [k |-> "raise", exc |-> name]
IsRaise(x) == "exc" \in DOMAIN x

\* datetime.min / datetime.max (years 1 and 9999) as epoch seconds, the upper
\* one to the thousand seconds
MinTimestamp == Num(-621355968, 2)
MaxTimestamp == Num(253402300, 3)

\* datetime.fromtimestamp(value [, tz]): raises outside years 1..9999
fromtimestamp(x, aware) ==
    IF NumLt(x, MinTimestamp) \/ NumLt(MaxTimestamp, x)
    THEN Raise("ValueError")
    ELSE DateTime(x, aware)

(***************************************************************************)
(* str and dict helpers                                                    *)
(***************************************************************************)
\* s.replace(old, new) for a one-character old
RECURSIVE str_replace(_, _, _)
str_replace(s, old, new) ==
    IF s = "" THEN ""
    ELSE (IF SubSeq(s, 1, 1) = old THEN new ELSE SubSeq(s, 1, 1))
         \o str_replace(SubSeq(s, 2, Len(s)), old, new)

\* sub in text
StrContains(text, sub) ==
    \E i \in 1..(Len(text) - Len(sub) + 1) : SubSeq(text, i, i + Len(sub) - 1) = sub

\* key in d
HasKey(d, key) == \E i \in 1..Len(d.items) : d.items[i][1] = key

\* d.get(key, default) / d[key]
DictGet(d, key, default) ==
    IF HasKey(d, key)
    THEN d.items[CHOOSE i \in 1..Len(d.items) : d.items[i][1] = key][2]
    ELSE default

\* bool(value)
Truthy(value) ==
    CASE value.k = "NoneType" -> FALSE
      [] value.k = "str" -> value.s # ""
      [] value.k = "bool" -> value.b
      [] value.k = "int" -> NumOf(value).m # 0
      [] value.k \in {"dict", "list"} -> Len(value.items) > 0
      [] OTHER -> TRUE

(***************************************************************************)
(* ISO-8601 texts.  datetime.fromisoformat is modelled on the texts below; *)
(* every other text makes it raise ValueError.                             *)
(***************************************************************************)
IsoTexts ==
    [ s \in { "2024-01-01T08:00:00", "2024-01-01T09:00:00+00:00",
              "2024-01-01T10:00:00+00:00", "2024-01-02T14:30:00+00:00",
              "2024-01-03T09:15:00+00:00", "2024-01-06T22:00:00+00:00" } |->
        CASE s = "2024-01-01T08:00:00"       -> DateTime(Num(1704096000, 0), FALSE)
          [] s = "2024-01-01T09:00:00+00:00" -> DateTime(Num(1704099600, 0), TRUE)
          [] s = "2024-01-01T10:00:00+00:00" -> DateTime(Num(1704103200, 0), TRUE)
          [] s = "2024-01-02T14:30:00+00:00" -> DateTime(Num(1704205800, 0), TRUE)
          [] s = "2024-01-03T09:15:00+00:00" -> DateTime(Num(1704273300, 0), TRUE)
          [] s = "2024-01-06T22:00:00+00:00" -> DateTime(Num(1704578400, 0), TRUE) ]

fromisoformat(s) ==
    IF s \in DOMAIN IsoTexts THEN IsoTexts[s] ELSE Raise("ValueError")

\* a < b on datetimes: comparing a naive with an aware one raises TypeError
DateLt(a, b) ==
    IF a.aware # b.aware THEN Raise("TypeError") ELSE NumLt(a.t, b.t)

(***************************************************************************)
(* list-claude-sessions.py: the Timestamp Resolver                         *)
(***************************************************************************)
\* 1e14 and 1e11
MicrosThreshold == Num(1, 14)
MillisThreshold == Num(1, 11)

\* sys.float_info.max, 1.7976931348623157e308, to eight digits
FloatMax == Num(17976931, 301)

\* value / 10^n raises OverflowError ("integer division result too large for
\* a float"): value is an int whose quotient exceeds the largest float.  A
\* float operand gives inf instead.
DivisionOverflows(value, n) ==
    /\ value.k = "int"
    /\ NumLt(FloatMax, NumScale(NumOf(value), -n))

\* a resolver whose milliseconds threshold is one decade too high
_parse_timestamp_decade(value) ==
    IF value.k \in {"int", "float", "bool"}
    THEN LET x == NumOf(value)
             secs == IF NumLt(MicrosThreshold, x) THEN NumScale(x, -6)
                     ELSE IF NumLt(Num(1, 12), x) THEN NumScale(x, -3)
                     ELSE x
             dt == fromtimestamp(secs, FALSE)
         IN  IF NumLt(MicrosThreshold, x) /\ DivisionOverflows(value, 6)
             THEN Raise("OverflowError")
             ELSE IF IsRaise(dt) THEN None ELSE dt
    ELSE IF value.k = "str"
    THEN LET dt == fromisoformat(str_replace(value.s, "Z", "+00:00"))
         IN  IF IsRaise(dt) THEN None ELSE dt
    ELSE None

\* ClaudeSession._parse_timestamp.  The two divisions (lines 173-176) stand
\* before the try, so their OverflowError leaves the function.
_parse_timestamp(value) ==
    IF value.k \in {"int", "float", "bool"}
    THEN LET x == NumOf(value)
             secs == IF NumLt(MicrosThreshold, x) THEN NumScale(x, -6)
                     ELSE IF NumLt(MillisThreshold, x) THEN NumScale(x, -3)
                     ELSE x
             dt == fromtimestamp(secs, FALSE)
         IN  IF NumLt(MicrosThreshold, x) /\ DivisionOverflows(value, 6)
             THEN Raise("OverflowError")
             ELSE IF IsRaise(dt) THEN None ELSE dt
    ELSE IF value.k = "str"
    THEN LET dt == fromisoformat(str_replace(value.s, "Z", "+00:00"))
         IN  IF IsRaise(dt) THEN None ELSE dt
    ELSE None

TsKeys == <<"timestamp", "time", "ts", "created", "created_at", "datetime", "date">>

\* the first of keys[i..] that is a key of d, or 0
RECURSIVE FirstKey(_, _, _)
FirstKey(d, keys, i) ==
    IF i > Len(keys) THEN 0
    ELSE IF HasKey(d, keys[i]) THEN i
    ELSE FirstKey(d, keys, i + 1)

\* ClaudeSession._extract_timestamp; "key in event" on a value that is no
\* container raises TypeError
_extract_timestamp(event) ==
    IF event.k \in {"NoneType", "int", "float", "bool"} THEN Raise("TypeError")
    ELSE IF event.k = "dict" /\ FirstKey(event, TsKeys, 1) # 0
    THEN _parse_timestamp(DictGet(event, TsKeys[FirstKey(event, TsKeys, 1)], None))
    ELSE IF event.k = "dict" /\ HasKey(event, "payload")
    THEN LET payload == DictGet(event, "payload", None)
         IN  IF payload.k \in {"NoneType", "int", "float", "bool"}
             THEN Raise("TypeError")
             ELSE IF payload.k = "dict" /\ FirstKey(payload, TsKeys, 1) # 0
             THEN _parse_timestamp(
                      DictGet(payload, TsKeys[FirstKey(payload, TsKeys, 1)], None))
             ELSE IF \/ payload.k = "str" /\ \E i \in 1..Len(TsKeys) :
                                                StrContains(payload.s, TsKeys[i])
                     \/ payload.k = "list" /\ \E i \in 1..Len(TsKeys) :
                                                InSeq(PyStr(TsKeys[i]), payload.items)
             THEN Raise("TypeError")
             ELSE None
    ELSE None

(***************************************************************************)
(* pick_claude_sessions.py: ts_of_event                                    *)
(***************************************************************************)
PickKeys == <<"timestamp", "time", "ts", "created", "created_at">>

\* the value ts_of_event makes of e[key]: a datetime normalised to aware UTC,
\* "next" when the loop goes on to the next key
ts_of_value(v) ==
    IF v.k \in {"int", "float", "bool"}
    THEN LET x == NumOf(v)
             secs == IF NumLt(MicrosThreshold, x) THEN NumScale(x, -6)
                     ELSE IF NumLt(MillisThreshold, x) THEN NumScale(x, -3)
                     ELSE x
             dt == fromtimestamp(secs, TRUE)
         IN  IF IsRaise(dt) THEN [k |-> "next"] ELSE dt
    ELSE IF v.k = "str"
    THEN LET dt == fromisoformat(str_replace(v.s, "Z", "+00:00"))
         IN  IF IsRaise(dt) THEN [k |-> "next"] ELSE DateTime(dt.t, TRUE)
    ELSE [k |-> "next"]

RECURSIVE ts_of_keys(_, _)
ts_of_keys(e, i) ==
    IF i > Len(PickKeys) THEN None
    ELSE IF HasKey(e, PickKeys[i])
            /\ ts_of_value(DictGet(e, PickKeys[i], None)).k # "next"
    THEN ts_of_value(DictGet(e, PickKeys[i], None))
    ELSE ts_of_keys(e, i + 1)

\* ts_of_event, for an event that is a dict
ts_of_event(e) == ts_of_keys(e, 1)

(***************************************************************************)
(* The resolver applied to one instant written as epoch seconds,           *)
(* milliseconds and microseconds.                                          *)
(***************************************************************************)
RawValues ==
    { Num(m, e) : m \in 0..MaxMant, e \in 0..MaxExp } \cup { Num(-1, 0), Num(-5, 9) }

\* the JSON number x * 10^n
Scaled(x, n) == PyBig(x.m, x.e + n)

TimestampIdle ==
    /\ raw = Num(0, 0)
    /\ parsed = <<>>
    /\ picked = <<>>

TimestampInit ==
    /\ raw \in RawValues
    /\ parsed = <<>>
    /\ picked = <<>>

ParseTimestamp ==
    /\ Len(parsed) < 3
    /\ parsed' = Append(parsed, _parse_timestamp(Scaled(raw, 3 * Len(parsed))))
    /\ UNCHANGED <<raw, picked>>
    /\ UNCHANGED notTimestamp

TsOfEvent ==
    /\ Len(picked) < 3
    /\ picked' = Append(picked,
            ts_of_event(PyDict(<< <<"timestamp", Scaled(raw, 3 * Len(picked))>> >>)))
    /\ UNCHANGED <<raw, parsed>>
    /\ UNCHANGED notTimestamp

TimestampNext ==
    \/ ParseTimestamp
    \/ TsOfEvent

\* 10^8 < raw <= 10^11: the seconds values whose milliseconds and microseconds
\* forms fall in the resolver's milliseconds and microseconds bands
InSecondsBand(x) == NumLt(Num(1, 8), x) /\ ~NumLt(Num(1, 11), x)

\* C4: for every numeric t the resolver maps t, t*1000 and t*1000000 to the
\* same instant.
C4_AllMagnitudesSameInstant ==
    /\ Len(parsed) = 3 => (parsed[1] = parsed[2] /\ parsed[2] = parsed[3])
    /\ Len(picked) = 3 => (picked[1] = picked[2] /\ picked[2] = picked[3])

\* C4 (amended): for every integer t with 10^8 < t <= 10^11 both resolvers
\* map t, t*1000 and t*1000000 to the same instant, the instant t seconds
\* after the epoch.
C4_SameInstantInSecondsBand ==
    InSecondsBand(raw) =>
        /\ \A i \in 1..Len(parsed) : parsed[i] = DateTime(raw, FALSE)
        /\ \A i \in 1..Len(picked) : picked[i] = DateTime(raw, TRUE)

\* C4 witness: a value of the band resolved in all three magnitudes
C4_Witness ==
    InSecondsBand(raw) /\ Len(parsed) = 3 /\ Len(picked) = 3

(***************************************************************************)
(* Timestamp extraction applied to one event, and _parse_timestamp applied *)
(* to one raw value.                                                       *)
(***************************************************************************)
PyFloat(m, e) == [k |-> "float", m |-> m, e |-> e]

Absent == [k |-> "absent"]
Pending == [k |-> "pending"]

\* the values a candidate key of a probe event can hold
KeyValues ==
    { PyStr("2024-01-01T10:00:00Z"), PyStr("garbage"), PyInt(1704096000), None }

\* a dict of the given <<key, value>> pairs, the Absent ones left out
DictOf(pairs) == PyDict(SelectSeq(pairs, LAMBDA kv : kv[2] # Absent))

\* events with "timestamp" and "time" at the top level and "ts" in the
\* payload, each present or not; the payload may also be null or empty
ProbeEvents ==
    { DictOf(<< <<"timestamp", a>>, <<"time", b>>, <<"payload", p>> >>) :
        a \in KeyValues \cup {Absent},
        b \in KeyValues \cup {Absent},
        p \in { DictOf(<< <<"ts", c>> >>) : c \in KeyValues \cup {Absent} }
              \cup {Absent, None} }

\* raw values of every type: in and out of range ints and floats, texts,
\* and values that are neither
RawInputs ==
    { PyInt(1704096000), PyInt(-1), PyBig(17, 11), PyBig(17, 14), PyBig(1, 20),
      PyBig(1, 314), PyBig(2, 314), PyBig(1, 400), PyBig(-1, 400),
      PyFloat(1, 300), PyFloat(17, 14), PyBool(TRUE),
      PyStr("2024-01-01T10:00:00Z"), PyStr("2024-01-01T08:00:00"), PyStr("garbage"),
      PyStr(""), None, PyList(<< PyInt(1) >>), PyDict(<<>>) }

ExtractionIdle ==
    /\ probe = PyDict(<<>>)
    /\ extracted = Pending
    /\ chosen = Pending
    /\ resolved = Pending

ExtractionInit ==
    /\ probe \in ProbeEvents
    /\ extracted = Pending
    /\ chosen = Pending
    /\ resolved = Pending

\* ts = self._extract_timestamp(event)
ExtractTimestamp ==
    /\ extracted' = _extract_timestamp(probe)
    /\ UNCHANGED <<probe, chosen, resolved>>
    /\ UNCHANGED notExtraction

\* ts_of_event(e)
PickTimestamp ==
    /\ chosen' = ts_of_event(probe)
    /\ UNCHANGED <<probe, extracted, resolved>>
    /\ UNCHANGED notExtraction

\* self._parse_timestamp(value)
ResolveValue(value) ==
    /\ resolved' = [value |-> value, result |-> _parse_timestamp(value)]
    /\ UNCHANGED <<probe, extracted, chosen>>
    /\ UNCHANGED notExtraction

ExtractionNext ==
    \/ ExtractTimestamp
    \/ PickTimestamp
    \/ \E value \in RawInputs : ResolveValue(value)

(***************************************************************************)
(* Properties of timestamp extraction.                                     *)
(***************************************************************************)
\* the value under the first candidate key found: the keys in their order at
\* the event's top level, then in the nested payload mapping; Absent if none
FirstFound(event, keys) ==
    LET payload == DictGet(event, "payload", Absent)
    IN  IF FirstKey(event, keys, 1) # 0
        THEN DictGet(event, keys[FirstKey(event, keys, 1)], None)
        ELSE IF payload.k = "dict" /\ FirstKey(payload, keys, 1) # 0
        THEN DictGet(payload, keys[FirstKey(payload, keys, 1)], None)
        ELSE Absent

\* what ts_of_event's resolution makes of one value: the instant, or None
PickedFrom(value) ==
    IF ts_of_value(value).k = "next" THEN None ELSE ts_of_value(value)

PayloadIsMapping(event) == DictGet(event, "payload", PyDict(<<>>)).k = "dict"

\* C12, for ClaudeSession._extract_timestamp: the result is the resolution of
\* the value under the first key found, None when that value is unresolvable
\* or no key is found.
ExtractedFromFirstFound ==
    (PayloadIsMapping(probe) /\ extracted # Pending) =>
        extracted = IF FirstFound(probe, TsKeys) = Absent THEN None
                    ELSE _parse_timestamp(FirstFound(probe, TsKeys))

\* C12, for ts_of_event: likewise with its own candidate keys
ChosenFromFirstFound ==
    (PayloadIsMapping(probe) /\ chosen # Pending) =>
        chosen = IF FirstFound(probe, PickKeys) = Absent THEN None
                 ELSE PickedFrom(FirstFound(probe, PickKeys))

\* C12: timestamp extraction (_extract_timestamp, ts_of_event) uses only the
\* first candidate key found, top level first and then the payload mapping:
\* if that key's value is unresolvable the event's timestamp is unresolvable,
\* whatever later candidate keys and payload keys hold.
C12_FirstKeyFoundDecides == ExtractedFromFirstFound /\ ChosenFromFirstFound

\* C13: ClaudeSession._parse_timestamp returns a resolved timestamp or None
\* for every raw value (ints and floats in and out of range, texts, values of
\* other types); it never raises.
C13_ParseTimestampNeverRaises ==
    resolved # Pending =>
        /\ ~IsRaise(resolved.result)
        /\ resolved.result = None \/ resolved.result.k = "datetime"

(***************************************************************************)
(* prototype_metrics.py: parse_codex_session                               *)
(***************************************************************************)
\* a - b for Nums whose difference fits the model checker's integers
NumSub(a, b) ==
    LET lo == Min(a.e, b.e)
    IN  Num(a.m * Pow10(a.e - lo) - b.m * Pow10(b.e - lo), lo)

\* the components of a path text split at "/", cur being the one in progress
RECURSIVE PathParts(_, _, _)
PathParts(s, cur, acc) ==
    IF s = "" THEN Append(acc, cur)
    ELSE IF SubSeq(s, 1, 1) = "/"
    THEN PathParts(SubSeq(s, 2, Len(s)), "", Append(acc, cur))
    ELSE PathParts(SubSeq(s, 2, Len(s)), cur \o SubSeq(s, 1, 1), acc)

\* Path(s).name: the last component that is neither empty nor ".", or ""
PathName(s) ==
    LET parts == SelectSeq(PathParts(s, "", <<>>), LAMBDA c : c # "" /\ c # ".")
    IN  IF parts = <<>> THEN "" ELSE parts[Len(parts)]

\* session_data as parse_codex_session creates it (lines 197-207)
NewSessionData(file) ==
    [agent |-> "codex", file |-> file, start_time |-> None, end_time |-> None,
     duration_seconds |-> Num(0, 0),
     tokens |-> [input |-> 0, output |-> 0, cached |-> 0, reasoning |-> 0],
     message_count |-> 0, tool_call_count |-> 0, project |-> None]

\* lines 226-235 with the two comparisons exchanged
codex_timestamps_swapped(sd, event) ==
    LET ts_str == DictGet(event, "timestamp", None)
        ts == IF ts_str.k = "str"
              THEN fromisoformat(str_replace(ts_str.s, "Z", "+00:00"))
              ELSE Raise("AttributeError")
    IN  IF ~Truthy(ts_str) \/ IsRaise(ts) THEN sd
        ELSE IF sd.start_time # None /\ sd.start_time.aware # ts.aware THEN sd
        ELSE LET s1 == IF sd.start_time = None \/ NumLt(sd.start_time.t, ts.t)
                       THEN [sd EXCEPT !.start_time = ts] ELSE sd
             IN  IF s1.end_time # None /\ s1.end_time.aware # ts.aware THEN s1
                 ELSE IF s1.end_time = None \/ NumLt(ts.t, s1.end_time.t)
                 THEN [s1 EXCEPT !.end_time = ts] ELSE s1

\* lines 226-235: the timestamp of one event.  Everything that raises inside
\* the try (no str.replace, fromisoformat's ValueError, the TypeError of
\* comparing a naive with an aware datetime) ends the block where it stands.
codex_timestamps(sd, event) ==
    LET ts_str == DictGet(event, "timestamp", None)
        ts == IF ts_str.k = "str"
              THEN fromisoformat(str_replace(ts_str.s, "Z", "+00:00"))
              ELSE Raise("AttributeError")
    IN  IF ~Truthy(ts_str) \/ IsRaise(ts) THEN sd
        ELSE IF sd.start_time # None /\ sd.start_time.aware # ts.aware THEN sd
        ELSE LET s1 == IF sd.start_time = None \/ NumLt(ts.t, sd.start_time.t)
                       THEN [sd EXCEPT !.start_time = ts] ELSE sd
             IN  IF s1.end_time # None /\ s1.end_time.aware # ts.aware THEN s1
                 ELSE IF s1.end_time = None \/ NumLt(s1.end_time.t, ts.t)
                 THEN [s1 EXCEPT !.end_time = ts] ELSE s1

UsageKeys ==
    <<"input_tokens", "output_tokens", "cached_input_tokens", "reasoning_output_tokens">>

\* usage.get(key, 0) can be added to an int: None, a str or a container cannot
UsageAddable(usage, key) ==
    LET v == DictGet(usage, key, PyInt(0))
    IN  v.k = "bool" \/ (v.k = "int" /\ "n" \in DOMAIN v)

\* usage.get(key, 0) as an addend
UsageField(usage, key) ==
    LET v == DictGet(usage, key, PyInt(0))
    IN  IF v.k = "bool" THEN (IF v.b THEN 1 ELSE 0) ELSE v.n

\* lines 241-245
add_usage(sd, usage) ==
    IF usage.k # "dict" THEN Raise("AttributeError")
    ELSE IF \E i \in 1..Len(UsageKeys) : ~UsageAddable(usage, UsageKeys[i])
    THEN Raise("TypeError")
    ELSE [sd EXCEPT
            !.tokens.input = @ + UsageField(usage, "input_tokens"),
            !.tokens.output = @ + UsageField(usage, "output_tokens"),
            !.tokens.cached = @ + UsageField(usage, "cached_input_tokens"),
            !.tokens.reasoning = @ + UsageField(usage, "reasoning_output_tokens")]

\* lines 238-245 without the test of the payload type: every event_msg that
\* carries a usage is added
codex_tokens_any_payload(sd, event) ==
    IF DictGet(event, "type", None) # PyStr("event_msg") THEN sd
    ELSE LET payload == DictGet(event, "payload", PyDict(<<>>))
             info == DictGet(payload, "info", PyDict(<<>>))
         IN  IF payload.k # "dict" THEN Raise("AttributeError")
             ELSE CASE info.k \in {"NoneType", "int", "float", "bool"} ->
                          Raise("TypeError")
                    [] info.k = "dict" ->
                          IF HasKey(info, "last_token_usage")
                          THEN add_usage(sd, DictGet(info, "last_token_usage", None))
                          ELSE sd
                    [] info.k = "str" ->
                          IF StrContains(info.s, "last_token_usage")
                          THEN Raise("TypeError") ELSE sd
                    [] info.k = "list" ->
                          IF InSeq(PyStr("last_token_usage"), info.items)
                          THEN Raise("TypeError") ELSE sd

\* lines 238-245
codex_tokens(sd, event) ==
    IF DictGet(event, "type", None) # PyStr("event_msg") THEN sd
    ELSE LET payload == DictGet(event, "payload", PyDict(<<>>))
             info == DictGet(payload, "info", PyDict(<<>>))
         IN  IF payload.k # "dict" THEN Raise("AttributeError")
             ELSE IF DictGet(payload, "type", None) # PyStr("token_count") THEN sd
             ELSE CASE info.k \in {"NoneType", "int", "float", "bool"} ->
                          Raise("TypeError")
                    [] info.k = "dict" ->
                          IF HasKey(info, "last_token_usage")
                          THEN add_usage(sd, DictGet(info, "last_token_usage", None))
                          ELSE sd
                    [] info.k = "str" ->
                          IF StrContains(info.s, "last_token_usage")
                          THEN Raise("TypeError") ELSE sd
                    [] info.k = "list" ->
                          IF InSeq(PyStr("last_token_usage"), info.items)
                          THEN Raise("TypeError") ELSE sd

\* lines 248-251
codex_project(sd, event) ==
    IF Truthy(sd.project) THEN sd
    ELSE LET payload == DictGet(event, "payload", PyDict(<<>>))
             cwd == DictGet(payload, "cwd", None)
         IN  IF payload.k # "dict" THEN Raise("AttributeError")
             ELSE IF ~Truthy(cwd) THEN sd
             ELSE IF cwd.k # "str" THEN Raise("TypeError")
             ELSE [sd EXCEPT !.project = PyStr(PathName(cwd.s))]

\* lines 254-259 with a function_call counted as a message as well
codex_messages_both(sd, event) ==
    IF DictGet(event, "type", None) # PyStr("response_item") THEN sd
    ELSE LET payload == DictGet(event, "payload", PyDict(<<>>))
             payload_type == DictGet(payload, "type", None)
         IN  IF payload.k # "dict" THEN Raise("AttributeError")
             ELSE IF payload_type = PyStr("message")
             THEN [sd EXCEPT !.message_count = @ + 1]
             ELSE IF payload_type = PyStr("function_call")
             THEN [sd EXCEPT !.message_count = @ + 1, !.tool_call_count = @ + 1]
             ELSE sd

\* lines 254-259
codex_messages(sd, event) ==
    IF DictGet(event, "type", None) # PyStr("response_item") THEN sd
    ELSE LET payload == DictGet(event, "payload", PyDict(<<>>))
             payload_type == DictGet(payload, "type", None)
         IN  IF payload.k # "dict" THEN Raise("AttributeError")
             ELSE IF payload_type = PyStr("message")
             THEN [sd EXCEPT !.message_count = @ + 1]
             ELSE IF payload_type = PyStr("function_call")
             THEN [sd EXCEPT !.tool_call_count = @ + 1]
             ELSE sd

\* lines 224-259: the body of "for event in events" for one event; on a value
\* that is no dict event.get raises AttributeError
codex_event(sd, event) ==
    IF event.k # "dict" THEN Raise("AttributeError")
    ELSE LET s1 == codex_timestamps(sd, event)
             s2 == codex_tokens(s1, event)
             s3 == IF IsRaise(s2) THEN s2 ELSE codex_project(s2, event)
         IN  IF IsRaise(s3) THEN s3 ELSE codex_messages(s3, event)

\* lines 262-268
codex_finish(sd) ==
    IF sd.start_time # None /\ sd.end_time # None
    THEN IF sd.start_time.aware # sd.end_time.aware THEN Raise("TypeError")
         ELSE [has_end_time |-> TRUE] @@
              [sd EXCEPT !.duration_seconds = NumSub(sd.end_time.t, sd.start_time.t)]
    ELSE [has_end_time |-> FALSE] @@ sd

(***************************************************************************)
(* The lines of a Codex session file.                                      *)
(***************************************************************************)
BlankLine == [k |-> "blank"]

TokenUsage ==
    PyDict(<< <<"input_tokens", PyInt(10)>>, <<"output_tokens", PyInt(5)>>,
              <<"cached_input_tokens", PyInt(2)>>,
              <<"reasoning_output_tokens", PyInt(1)>> >>)

CodexLines ==
    { PyDict(<< <<"timestamp", PyStr("2024-01-01T10:00:00Z")>>,
                <<"type", PyStr("session_meta")>>,
                <<"payload", PyDict(<< <<"cwd", PyStr("/home/u/repoA")>> >>)>> >>),
      PyDict(<< <<"timestamp", PyStr("2024-01-01T09:00:00Z")>>,
                <<"type", PyStr("response_item")>>,
                <<"payload", PyDict(<< <<"type", PyStr("message")>> >>)>> >>),
      PyDict(<< <<"timestamp", PyStr("2024-01-02T14:30:00Z")>>,
                <<"type", PyStr("response_item")>>,
                <<"payload", PyDict(<< <<"type", PyStr("function_call")>>,
                                       <<"cwd", PyStr("/srv/repoB/")>> >>)>> >>),
      PyDict(<< <<"timestamp", PyStr("2024-01-01T08:00:00")>>,
                <<"type", PyStr("event_msg")>>,
                <<"payload", PyDict(<< <<"type", PyStr("token_count")>>,
                    <<"info", PyDict(<< <<"last_token_usage", TokenUsage>> >>)>> >>)>> >>),
      PyDict(<< <<"type", PyStr("event_msg")>>,
                <<"payload", PyDict(<< <<"type", PyStr("token_count")>>,
                    <<"info", PyDict(<< <<"last_token_usage",
                        PyDict(<< <<"input_tokens", PyInt(3)>> >>)>> >>)>> >>)>> >>),
      PyDict(<< <<"type", PyStr("event_msg")>>,
                <<"payload", PyDict(<< <<"type", PyStr("agent_message")>>,
                    <<"info", PyDict(<< <<"last_token_usage", TokenUsage>> >>)>> >>)>> >>),
      PyDict(<< <<"timestamp", PyInt(1704096000)>>,
                <<"type", PyStr("turn_context")>>,
                <<"payload", PyDict(<< <<"cwd", PyStr("/")>> >>)>> >>),
      PyDict(<< <<"timestamp", PyStr("yesterday")>>,
                <<"type", PyStr("event_msg")>>,
                <<"payload", None>> >>),
      PyList(<< PyInt(1) >>),
      BlankLine,
      MalformedLine }

(***************************************************************************)
(* parse_codex_session, step by step.                                      *)
(***************************************************************************)
NotReturned == [k |-> "pending"]

CodexIdle ==
    /\ cx = [pc |-> "open", i |-> 0, lines |-> 0, exc |-> ""]
    /\ events = <<>>
    /\ session_data = NewSessionData("rollout-1.jsonl")
    /\ returned = NotReturned

CodexInit == CodexIdle

\* with open(session_file, 'r') as f: events = []
CodexOpen ==
    /\ cx.pc = "open"
    /\ cx' = [cx EXCEPT !.pc = "reading"]
    /\ UNCHANGED <<events, session_data, returned>>
    /\ UNCHANGED notCodex

\* one iteration of "for line in f": blank and unparseable lines are skipped
CodexReadLine(line) ==
    /\ cx.pc = "reading"
    /\ cx.lines < MaxEvents
    /\ cx' = [cx EXCEPT !.lines = @ + 1]
    /\ events' = IF line \in {BlankLine, MalformedLine} THEN events
                 ELSE Append(events, line)
    /\ UNCHANGED <<session_data, returned>>
    /\ UNCHANGED notCodex

\* open() or the read raises: "except Exception" prints and returns None
CodexReadFails ==
    /\ cx.pc \in {"open", "reading"}
    /\ cx' = [cx EXCEPT !.pc = "done", !.exc = "OSError"]
    /\ returned' = None
    /\ UNCHANGED <<events, session_data>>
    /\ UNCHANGED notCodex

\* the file is exhausted: "if not events: return None"
CodexEndOfFile ==
    /\ cx.pc = "reading"
    /\ IF events = <<>>
       THEN /\ cx' = [cx EXCEPT !.pc = "done"]
            /\ returned' = None
       ELSE /\ cx' = [cx EXCEPT !.pc = "extract", !.i = 1]
            /\ UNCHANGED returned
    /\ UNCHANGED <<events, session_data>>
    /\ UNCHANGED notCodex

\* one iteration of "for event in events"; an exception leaves the loop for
\* "except Exception", which returns None
CodexEvent ==
    /\ cx.pc = "extract"
    /\ cx.i <= Len(events)
    /\ LET next == codex_event(session_data, events[cx.i])
       IN  IF IsRaise(next)
           THEN /\ cx' = [cx EXCEPT !.pc = "done", !.exc = next.exc]
                /\ returned' = None
                /\ UNCHANGED session_data
           ELSE /\ cx' = [cx EXCEPT !.i = @ + 1]
                /\ session_data' = next
                /\ UNCHANGED returned
    /\ UNCHANGED events
    /\ UNCHANGED notCodex

\* after the loop: the duration, has_end_time, return session_data
CodexFinish ==
    /\ cx.pc = "extract"
    /\ cx.i > Len(events)
    /\ LET final == codex_finish(session_data)
       IN  IF IsRaise(final)
           THEN /\ cx' = [cx EXCEPT !.pc = "done", !.exc = final.exc]
                /\ returned' = None
                /\ UNCHANGED session_data
           ELSE /\ cx' = [cx EXCEPT !.pc = "done"]
                /\ session_data' = final
                /\ returned' = final
    /\ UNCHANGED events
    /\ UNCHANGED notCodex

CodexNext ==
    \/ CodexOpen
    \/ \E line \in CodexLines : CodexReadLine(line)
    \/ CodexReadFails
    \/ CodexEndOfFile
    \/ CodexEvent
    \/ CodexFinish

\* F applied to the value of x, x being computed once
Bind(x, F(_)) == CHOOSE r \in { F(v) : v \in {x} } : TRUE

\* F applied to the value of x unless x is an exception, which is passed on
Then(x, F(_)) == Bind(x, LAMBDA v : IF IsRaise(v) THEN v ELSE F(v))

\* parse_codex_session as a function of the file: readable says whether
\* open() and the read succeed, lines holds the file's lines
RECURSIVE codex_fold(_, _, _)
codex_fold(sd, evs, i) ==
    IF i > Len(evs) THEN codex_finish(sd)
    ELSE Then(codex_event(sd, evs[i]), LAMBDA next : codex_fold(next, evs, i + 1))

\* parse_codex_session without "if not events: return None"
parse_codex_session_keeps_empty(file) ==
    IF ~file.readable THEN None
    ELSE Bind(SelectSeq(file.lines, LAMBDA l : l \notin {BlankLine, MalformedLine}),
              LAMBDA evs :
                  Bind(codex_fold(NewSessionData(file.name), evs, 1),
                       LAMBDA final : IF IsRaise(final) THEN None ELSE final))

parse_codex_session(file) ==
    IF ~file.readable THEN None
    ELSE Bind(SelectSeq(file.lines, LAMBDA l : l \notin {BlankLine, MalformedLine}),
              LAMBDA evs :
                  IF evs = <<>> THEN None
                  ELSE Bind(codex_fold(NewSessionData(file.name), evs, 1),
                            LAMBDA final : IF IsRaise(final) THEN None ELSE final))

(***************************************************************************)
(* Properties of parse_codex_session.                                      *)
(***************************************************************************)
\* the instants the Timestamp Resolver resolves from the events of a log
ResolvedInstants(evs) ==
    { _extract_timestamp(evs[i]).t :
        i \in { j \in 1..Len(evs) :
                    evs[j].k = "dict" /\ _extract_timestamp(evs[j]).k = "datetime" } }

NumMinOf(S) == CHOOSE x \in S : \A y \in S : ~NumLt(y, x)
NumMaxOf(S) == CHOOSE x \in S : \A y \in S : ~NumLt(x, y)

CodexReturnedRecord == cx.pc = "done" /\ returned # None

\* C5: in the record returned, start_time is the minimum and end_time the
\* maximum of the event timestamps the Timestamp Resolver can resolve
\* (epoch numbers as well as ISO-8601 strings), over all events of the log.
C5_StartEndAreMinMaxOfResolvable ==
    CodexReturnedRecord =>
        LET R == ResolvedInstants(events)
        IN  IF R = {}
            THEN returned.start_time = None /\ returned.end_time = None
            ELSE /\ returned.start_time # None
                 /\ returned.end_time # None
                 /\ returned.start_time.t = NumMinOf(R)
                 /\ returned.end_time.t = NumMaxOf(R)

\* C6: a log that was read and holds parsed events always yields a session
\* record: a field that cannot be derived from an event is taken as absent
\* and never drops the session.
C6_UnderivableFieldNeverDropsSession ==
    (cx.pc = "done" /\ events # <<>> /\ cx.exc # "OSError") => returned # None

BothTimes(r) == r.start_time # None /\ r.end_time # None

\* C9: in every record returned, duration_seconds is max(0, end - start) when
\* both timestamps are present and 0 otherwise, it is never negative, and
\* has_end_time is true exactly when both timestamps are present.
C9_DurationAndHasEndTime ==
    CodexReturnedRecord =>
        /\ returned.has_end_time = BothTimes(returned)
        /\ ~NumLt(returned.duration_seconds, Num(0, 0))
        /\ returned.duration_seconds =
             IF BothTimes(returned)
             THEN LET d == NumSub(returned.end_time.t, returned.start_time.t)
                  IN  IF NumLt(d, Num(0, 0)) THEN Num(0, 0) ELSE d
             ELSE Num(0, 0)

\* C9 witness: a record with both timestamps and a positive duration
C9_Witness ==
    /\ CodexReturnedRecord
    /\ BothTimes(returned)
    /\ returned.has_end_time
    /\ NumLt(Num(0, 0), returned.duration_seconds)

\* event.get('payload', {}).get('cwd') of an event the loop accepted
CwdOf(event) == DictGet(DictGet(event, "payload", PyDict(<<>>)), "cwd", None)

\* the events of the log that expose a working-directory value
ExposingCwd == { i \in 1..Len(events) : Truthy(CwdOf(events[i])) }

\* C11: the project of the returned record is the final path component of
\* the working directory of the first event in log order that exposes one
\* (also when that component is empty, as for "/"), so no later event has
\* changed it; it is None when no event exposes one.
C11_ProjectFromFirstWorkingDirectory ==
    CodexReturnedRecord =>
        IF ExposingCwd = {} THEN returned.project = None
        ELSE LET first == CHOOSE i \in ExposingCwd : \A j \in ExposingCwd : i <= j
             IN  returned.project = PyStr(PathName(CwdOf(events[first]).s))

\* the event is usage-reporting: type "event_msg", payload type "token_count"
ReportsUsage(event) ==
    /\ DictGet(event, "type", None) = PyStr("event_msg")
    /\ DictGet(DictGet(event, "payload", PyDict(<<>>)), "type", None) = PyStr("token_count")

\* the usage field the event reports under key, 0 when it reports none
ReportedUsage(event, key) ==
    LET info == DictGet(DictGet(event, "payload", PyDict(<<>>)), "info", PyDict(<<>>))
        usage == DictGet(info, "last_token_usage", PyDict(<<>>))
    IN  DictGet(usage, key, PyInt(0)).n

\* the sum of the usage field over the usage-reporting events among the
\* first n events of the log
RECURSIVE UsageTotal(_, _)
UsageTotal(n, key) ==
    IF n = 0 THEN 0
    ELSE UsageTotal(n - 1, key)
         + (IF ReportsUsage(events[n]) THEN ReportedUsage(events[n], key) ELSE 0)

\* C14: after each event of the log, and so in the returned record, each of
\* the four token counters is the sum of its usage field over exactly the
\* usage-reporting events (type "event_msg", payload type "token_count")
\* handled so far; other events leave the counters as they are.
C14_TokensSumOverUsageEvents ==
    LET n == IF cx.i = 0 THEN 0 ELSE cx.i - 1
    IN  /\ session_data.tokens.input = UsageTotal(n, "input_tokens")
        /\ session_data.tokens.output = UsageTotal(n, "output_tokens")
        /\ session_data.tokens.cached = UsageTotal(n, "cached_input_tokens")
        /\ session_data.tokens.reasoning = UsageTotal(n, "reasoning_output_tokens")

\* C14 witness: a returned record whose log holds two usage-reporting events
\* with different usages and an event_msg of another payload type that
\* carries a usage
C14_Witness ==
    /\ CodexReturnedRecord
    /\ returned.tokens.input = 13
    /\ returned.tokens.output = 5
    /\ \E i \in 1..Len(events) :
          /\ events[i].k = "dict"
          /\ DictGet(events[i], "type", None) = PyStr("event_msg")
          /\ ~ReportsUsage(events[i])

\* the event is of type "response_item" with the given payload type
IsResponseItem(event, payload_type) ==
    /\ DictGet(event, "type", None) = PyStr("response_item")
    /\ DictGet(DictGet(event, "payload", PyDict(<<>>)), "type", None) = PyStr(payload_type)

\* how many of the first n events of the log are such response items
ResponseItems(n, payload_type) ==
    Cardinality({ i \in 1..n : IsResponseItem(events[i], payload_type) })

\* C15: after each event of the log, and so in the returned record,
\* message_count is the number of "response_item" events with payload type
\* "message" and tool_call_count the number of those with payload type
\* "function_call" handled so far: an event of another kind changes neither
\* counter, and an event, having one payload type, adds to one counter only.
C15_MessageAndToolCallCounts ==
    LET n == IF cx.i = 0 THEN 0 ELSE cx.i - 1
    IN  /\ session_data.message_count = ResponseItems(n, "message")
        /\ session_data.tool_call_count = ResponseItems(n, "function_call")

\* C15 witness: a returned record of a log with a message, a function call
\* and an event of another kind
C15_Witness ==
    /\ CodexReturnedRecord
    /\ returned.message_count = 1
    /\ returned.tool_call_count = 1
    /\ Len(events) = 3

(***************************************************************************)
(* str methods used by ClaudeSession.parse                                 *)
(***************************************************************************)
UpperCase == "ABCDEFGHIJKLMNOPQRSTUVWXYZ"
LowerCase == "abcdefghijklmnopqrstuvwxyz"
Whitespace == {" ", "\t", "\n", "\r"}

CharAt(s, i) == SubSeq(s, i, i)

\* the texts pieces[lo..hi] joined end to end
RECURSIVE Flatten(_, _, _)
Flatten(pieces, lo, hi) ==
    IF lo > hi THEN ""
    ELSE IF lo = hi THEN pieces[lo]
    ELSE Flatten(pieces, lo, (lo + hi) \div 2)
         \o Flatten(pieces, ((lo + hi) \div 2) + 1, hi)

\* c.lower(), for an ASCII letter
char_lower(c) ==
    LET up == { i \in 1..Len(UpperCase) : CharAt(UpperCase, i) = c }
    IN  IF up = {} THEN c ELSE CharAt(LowerCase, CHOOSE i \in up : TRUE)

\* s.lower()
str_lower(s) == Flatten([i \in 1..Len(s) |-> char_lower(CharAt(s, i))], 1, Len(s))

\* s.strip()
str_strip(s) ==
    LET inked == { i \in 1..Len(s) : CharAt(s, i) \notin Whitespace }
    IN  IF inked = {} THEN ""
        ELSE SubSeq(s, CHOOSE i \in inked : \A j \in inked : i <= j,
                       CHOOSE i \in inked : \A j \in inked : j <= i)

\* ' '.join(s.split()): the words of s, one space between them; a run of
\* whitespace between two words leaves one space, at its first character
str_words(s) ==
    LET piece(i) ==
            IF CharAt(s, i) \notin Whitespace THEN CharAt(s, i)
            ELSE IF i > 1 /\ CharAt(s, i - 1) \notin Whitespace
                    /\ \E j \in (i + 1)..Len(s) : CharAt(s, j) \notin Whitespace
            THEN " " ELSE ""
    IN  Flatten([i \in 1..Len(s) |-> piece(i)], 1, Len(s))

\* s.find(sub): the 0-based index of the first occurrence, or -1
str_find(s, sub) ==
    LET at == { i \in 1..(Len(s) - Len(sub) + 1) : SubSeq(s, i, i + Len(sub) - 1) = sub }
    IN  IF at = {} THEN -1 ELSE (CHOOSE i \in at : \A j \in at : i <= j) - 1

\* s[start:end] for 0-based start >= 0; a negative end counts from the right
str_slice(s, start, end) ==
    LET stop == IF end < 0 THEN Max(Len(s) + end, 0) ELSE Min(end, Len(s))
    IN  SubSeq(s, start + 1, stop)

(***************************************************************************)
(* list-claude-sessions.py: ClaudeSession                                  *)
(***************************************************************************)
\* a or b
PyOr(a, b) == IF Truthy(a) THEN a ELSE b

\* ClaudeSession.__init__ (filepath apart)
NewClaudeSession ==
    [id |-> None, start_time |-> None, end_time |-> None, model |-> None,
     event_count |-> 0, events |-> <<>>, cwd |-> None, title |-> None,
     repo_name |-> None, git_branch |-> None]

\* lines 56-59 and 70-73: "if not self.<field>:" the event's key1 or key2,
\* else the payload's pkey; a payload without .get raises AttributeError
claude_field(cs, event, field, key1, key2, pkey) ==
    LET top == IF key2 = "" THEN DictGet(event, key1, None)
               ELSE PyOr(DictGet(event, key1, None), DictGet(event, key2, None))
        payload == DictGet(event, "payload", None)
    IN  IF Truthy(cs[field]) THEN cs
        ELSE IF ~HasKey(event, "payload") \/ Truthy(top)
        THEN [cs EXCEPT ![field] = top]
        ELSE IF payload.k # "dict" THEN Raise("AttributeError")
        ELSE [cs EXCEPT ![field] = DictGet(payload, pkey, None)]

\* lines 62-67 without the update of end_time
claude_timestamps_start_only(cs, event) ==
    LET ts == _extract_timestamp(event)
    IN  IF IsRaise(ts) THEN ts
        ELSE IF ts = None THEN cs
        ELSE IF cs.start_time # None /\ cs.start_time.aware # ts.aware
        THEN Raise("TypeError")
        ELSE IF cs.start_time = None \/ NumLt(ts.t, cs.start_time.t)
        THEN [cs EXCEPT !.start_time = ts] ELSE cs

\* lines 62-67: a naive and an aware datetime do not compare (TypeError)
claude_timestamps(cs, event) ==
    LET ts == _extract_timestamp(event)
    IN  IF IsRaise(ts) THEN ts
        ELSE IF ts = None THEN cs
        ELSE IF cs.start_time # None /\ cs.start_time.aware # ts.aware
        THEN Raise("TypeError")
        ELSE LET s1 == IF cs.start_time = None \/ NumLt(ts.t, cs.start_time.t)
                       THEN [cs EXCEPT !.start_time = ts] ELSE cs
             IN  IF s1.end_time # None /\ s1.end_time.aware # ts.aware
                 THEN Raise("TypeError")
                 ELSE IF s1.end_time = None \/ NumLt(s1.end_time.t, ts.t)
                 THEN [s1 EXCEPT !.end_time = ts] ELSE s1

\* lines 76-85.  "'<cwd>' in text" is a substring test on a str, a membership
\* test on a list or dict, and a TypeError on None, a number or a bool
claude_cwd(cs, event) ==
    LET found == claude_field(cs, event, "cwd", "cwd", "", "cwd")
        text == PyOr(DictGet(event, "text", None), DictGet(event, "content", PyStr("")))
    IN  IF Truthy(cs.cwd) \/ IsRaise(found) THEN found
        ELSE CASE text.k = "str" ->
                    IF StrContains(text.s, "<cwd>") /\ StrContains(text.s, "</cwd>")
                    THEN [found EXCEPT !.cwd =
                            PyStr(str_strip(str_slice(text.s,
                                                      str_find(text.s, "<cwd>") + 5,
                                                      str_find(text.s, "</cwd>"))))]
                    ELSE found
               [] text.k = "list" ->
                    IF InSeq(PyStr("<cwd>"), text.items) /\ InSeq(PyStr("</cwd>"), text.items)
                    THEN Raise("AttributeError") ELSE found
               [] text.k = "dict" ->
                    IF HasKey(text, "<cwd>") /\ HasKey(text, "</cwd>")
                    THEN Raise("AttributeError") ELSE found
               [] OTHER -> Raise("TypeError")

TitleLimit == 200
MaxParsedEvents == 50

\* skip_patterns
SkipPatterns ==
    <<"you are an expert", "you are a helpful", "act as a",
      "<command-name>", "caveat:", "<local-command">>

\* ' '.join(str(item.get('text', '')) if isinstance(item, dict) else str(item)
\*          for item in content), from the i-th item on
RECURSIVE join_blocks(_, _)
join_blocks(items, i) ==
    IF i > Len(items) THEN ""
    ELSE (IF i > 1 THEN " " ELSE "")
         \o (IF items[i].k = "dict" THEN pystr(DictGet(items[i], "text", PyStr("")))
             ELSE pystr(items[i]))
         \o join_blocks(items, i + 1)

\* lines 99-102 and 106-109: a list of content blocks is joined, any other
\* content is the text as it stands
content_text(content) ==
    IF content.k = "list" THEN PyStr(join_blocks(content.items, 1)) ELSE content

\* lines 94-109: the text of a user event, the nested message first
event_text(event) ==
    LET message == DictGet(event, "message", None)
        nested == IF HasKey(event, "message") /\ message.k = "dict"
                  THEN content_text(DictGet(message, "content", None))
                  ELSE None
    IN  IF Truthy(nested) THEN nested
        ELSE content_text(PyOr(DictGet(event, "content", None),
                               DictGet(event, "text", None)))

\* lines 113-115: whitespace collapsed, cut to 200 characters
clean_title(text) ==
    LET words == str_words(text)
    IN  IF Len(words) > TitleLimit THEN SubSeq(words, 1, TitleLimit) ELSE words

\* lines 88-123
claude_title(cs, event) ==
    LET text == event_text(event)
    IN  IF Truthy(cs.title) THEN cs
        ELSE IF DictGet(event, "type", None) # PyStr("user")
                \/ Truthy(DictGet(event, "isMeta", PyBool(FALSE)))
        THEN cs
        ELSE IF Truthy(text) /\ text.k = "str" /\ Len(str_strip(text.s)) > 0
        THEN IF \E i \in 1..Len(SkipPatterns) :
                    StrContains(str_lower(clean_title(text.s)), SkipPatterns[i])
             THEN cs
             ELSE [cs EXCEPT !.title = PyStr(clean_title(text.s))]
        ELSE cs

\* lines 126-129
claude_branch(cs, event) ==
    LET top == PyOr(DictGet(event, "git_branch", None), DictGet(event, "branch", None))
        repo == DictGet(event, "repo", None)
    IN  IF Truthy(cs.git_branch) THEN cs
        ELSE IF HasKey(event, "repo") /\ repo.k = "dict"
        THEN [cs EXCEPT !.git_branch = PyOr(top, DictGet(repo, "branch", None))]
        ELSE [cs EXCEPT !.git_branch = top]

\* lines 53-129 for one parsed event, block after block; event.get on a value
\* that is no dict raises AttributeError
claude_event(cs, event) ==
    IF event.k # "dict" THEN Raise("AttributeError")
    ELSE
    Then([cs EXCEPT !.events = Append(@, event)], LAMBDA s0 :
    Then(claude_field(s0, event, "id", "session_id", "id", "session_id"), LAMBDA s1 :
    Then(claude_timestamps(s1, event), LAMBDA s2 :
    Then(claude_field(s2, event, "model", "model", "", "model"), LAMBDA s3 :
    Then(claude_cwd(s3, event), LAMBDA s4 :
    Then(claude_title(s4, event), LAMBDA s5 :
         claude_branch(s5, event)))))))

\* lines 40-132 for the line at 0-based index idx of the file
claude_line(cs, line, idx) ==
    IF line = BlankLine THEN cs
    ELSE LET counted == [cs EXCEPT !.event_count = @ + 1]
         IN  IF idx >= MaxParsedEvents \/ line = MalformedLine THEN counted
             ELSE claude_event(counted, line)

\* lines 138-150, after the try: Path(self.cwd) of a cwd that is no str raises
\* TypeError out of parse
claude_finish(cs, stem) ==
    LET named == IF Truthy(cs.cwd)
                 THEN [cs EXCEPT !.repo_name = PyStr(PathName(cs.cwd.s))] ELSE cs
        ided == IF Truthy(named.id) THEN named
                ELSE [named EXCEPT !.id = PyStr(str_slice(stem, 0, 12))]
    IN  IF Truthy(cs.cwd) /\ cs.cwd.k # "str" THEN Raise("TypeError")
        ELSE IF Truthy(ided.title) THEN ided
        ELSE [ided EXCEPT !.title = PyStr("No prompt")]

(***************************************************************************)
(* ClaudeSession.parse, line by line.                                      *)
(***************************************************************************)
UserMessage(content) ==
    PyDict(<< <<"type", PyStr("user")>>,
              <<"message", PyDict(<< <<"role", PyStr("user")>>,
                                     <<"content", content>> >>)>> >>)

\* a prompt whose boilerplate phrase lies beyond the 200th character
LongPrompt == Repeat("x", TitleLimit) \o " Act as a pirate"

ClaudeLines ==
    { UserMessage(PyStr("You are an expert assistant...")),
      PyDict(<< <<"type", PyStr("user")>>, <<"cwd", PyStr("/home/u/repoA")>>,
                <<"message", PyDict(<< <<"content",
                                         PyStr("fix the bug in parser.py")>> >>)>> >>),
      PyDict(<< <<"type", PyStr("user")>>, <<"isMeta", PyBool(TRUE)>>,
                <<"content", PyStr("Caveat: generated by a command")>> >>),
      PyDict(<< <<"type", PyStr("assistant")>>,
                <<"timestamp", PyStr("2024-01-01T10:00:00Z")>>,
                <<"message", PyDict(<< <<"content", PyList(<<
                    PyDict(<< <<"type", PyStr("text")>>,
                              <<"text", PyStr("done")>> >>) >>)>> >>)>> >>),
      PyDict(<< <<"type", PyStr("user")>>,
                <<"content", PyList(<<
                    PyDict(<< <<"type", PyStr("text")>>,
                              <<"text", PyStr("add tests")>> >>),
                    PyStr("now") >>)>> >>),
      PyDict(<< <<"type", PyStr("user")>>, <<"text", PyStr(LongPrompt)>> >>),
      PyDict(<< <<"type", PyStr("user")>>, <<"content", None>> >>),
      BlankLine,
      MalformedLine }

\* the files of up to n lines
RECURSIVE FilesUpTo(_)
FilesUpTo(n) ==
    IF n = 0 THEN { <<>> }
    ELSE FilesUpTo(n - 1)
         \cup { Append(f, line) : f \in { g \in FilesUpTo(n - 1) : Len(g) = n - 1 },
                                  line \in ClaudeLines }

\* a file whose only prompt stands behind MaxParsedEvents blank lines
PaddedFile ==
    [i \in 1..(MaxParsedEvents + 1) |->
        IF i <= MaxParsedEvents THEN BlankLine
        ELSE UserMessage(PyStr("fix the bug in parser.py"))]

ClaudeFiles == FilesUpTo(MaxClaudeLines) \cup {PaddedFile}

FileStem == "4f1c2d3e-session-0001"

ClaudeIdle ==
    /\ claude_file = <<>>
    /\ claude = [pc |-> "open", idx |-> 0, session |-> NewClaudeSession,
                 result |-> Pending]

ClaudeInit ==
    /\ claude_file \in ClaudeFiles
    /\ claude = [pc |-> "open", idx |-> 0, session |-> NewClaudeSession,
                 result |-> Pending]

\* with open(self.filepath, ...) as f:
ClaudeOpen ==
    /\ claude.pc = "open"
    /\ claude' = [claude EXCEPT !.pc = "reading"]
    /\ UNCHANGED claude_file
    /\ UNCHANGED notClaude

\* one iteration of "for idx, line in enumerate(f)"; what the body raises is
\* caught by "except Exception", which returns False
ClaudeReadLine ==
    /\ claude.pc = "reading"
    /\ claude.idx < Len(claude_file)
    /\ \E next \in {claude_line(claude.session, claude_file[claude.idx + 1], claude.idx)} :
          IF IsRaise(next)
          THEN claude' = [claude EXCEPT !.pc = "done", !.result = PyBool(FALSE)]
          ELSE claude' = [claude EXCEPT !.idx = @ + 1, !.session = next]
    /\ UNCHANGED claude_file
    /\ UNCHANGED notClaude

\* open() or the read raises: "except Exception" returns False
ClaudeReadFails ==
    /\ claude.pc \in {"open", "reading"}
    /\ claude' = [claude EXCEPT !.pc = "done", !.result = PyBool(FALSE)]
    /\ UNCHANGED claude_file
    /\ UNCHANGED notClaude

\* the file is exhausted: lines 138-150, return True
ClaudeFinish ==
    /\ claude.pc = "reading"
    /\ claude.idx = Len(claude_file)
    /\ LET final == claude_finish(claude.session, FileStem)
       IN  IF IsRaise(final)
           THEN claude' = [claude EXCEPT !.pc = "done", !.result = final]
           ELSE claude' = [claude EXCEPT !.pc = "done", !.session = final,
                                         !.result = PyBool(TRUE)]
    /\ UNCHANGED claude_file
    /\ UNCHANGED notClaude

ClaudeNext ==
    \/ ClaudeOpen
    \/ ClaudeReadLine
    \/ ClaudeReadFails
    \/ ClaudeFinish

\* the lines of the file that hold a title candidate: a type "user", non-meta
\* event with a non-empty text
IsCandidate(line) ==
    /\ line \notin {BlankLine, MalformedLine}
    /\ line.k = "dict"
    /\ DictGet(line, "type", None) = PyStr("user")
    /\ ~Truthy(DictGet(line, "isMeta", PyBool(FALSE)))
    /\ event_text(line).k = "str"
    /\ Len(str_strip(event_text(line).s)) > 0

\* the candidate contains none of the boilerplate patterns, whatever the case
IsAccepted(line) ==
    \A i \in 1..Len(SkipPatterns) :
        ~StrContains(str_lower(event_text(line).s), SkipPatterns[i])

AcceptedLines(file) ==
    { i \in 1..Len(file) : IsCandidate(file[i]) /\ IsAccepted(file[i]) }

FirstAccepted(file) ==
    CHOOSE i \in AcceptedLines(file) : \A j \in AcceptedLines(file) : i <= j

\* C16: when parse has returned True, the title is the text of the first
\* type "user", non-meta event of the file whose text contains no boilerplate
\* pattern in any case, and "No prompt" when the file has no such event
C16_TitleIsFirstAcceptedCandidate ==
    claude.result = PyBool(TRUE) =>
        claude.session.title =
            IF AcceptedLines(claude_file) = {} THEN PyStr("No prompt")
            ELSE PyStr(clean_title(event_text(
                     claude_file[FirstAccepted(claude_file)]).s))

(***************************************************************************)
(* prototype_metrics.py: SessionMetrics                                    *)
(*                                                                         *)
(* defaultdict(list) and dict are kept as PyDict (items in insertion       *)
(* order).  A float rounded to p places is kept as the integer number of   *)
(* 10^-p units: round(x, 2) = 0.05 is 5.                                   *)
(***************************************************************************)
RECURSIVE SumSeq(_)
SumSeq(q) == IF q = <<>> THEN 0 ELSE q[1] + SumSeq(Tail(q))

\* a Num that is a whole number, as an integer
NumInt(x) == x.m * Pow10(x.e)

\* round(n / d * 10^places) for n >= 0, d > 0, halves to even
Rounded(n, d, places) ==
    LET scaled == n * Pow10(places)
        q == scaled \div d
        r == scaled % d
    IN  IF 2 * r < d THEN q
        ELSE IF 2 * r > d THEN q + 1
        ELSE IF q % 2 = 0 THEN q ELSE q + 1

\* session.get(key, default) / key in session
SessionGet(session, key, default) ==
    IF key \in DOMAIN session THEN session[key] ELSE default

\* d[key].append(x) on a defaultdict(list)
DictAppend(d, key, x) ==
    IF HasKey(d, key)
    THEN PyDict([i \in 1..Len(d.items) |->
                    IF d.items[i][1] = key
                    THEN <<key, Append(d.items[i][2], x)>> ELSE d.items[i]])
    ELSE PyDict(Append(d.items, <<key, <<x>> >>))

\* d[key] += 1 on a defaultdict(int)
DictCount(d, key) ==
    IF HasKey(d, key)
    THEN PyDict([i \in 1..Len(d.items) |->
                    IF d.items[i][1] = key
                    THEN <<key, d.items[i][2] + 1>> ELSE d.items[i]])
    ELSE PyDict(Append(d.items, <<key, 1>>))

\* SessionMetrics.__init__
NewMetrics ==
    [sessions |-> <<>>, by_agent |-> PyDict(<<>>), by_project |-> PyDict(<<>>)]

\* SessionMetrics.add_session
add_session(m, session) ==
    [sessions |-> Append(m.sessions, session),
     by_agent |-> DictAppend(m.by_agent, SessionGet(session, "agent", "unknown"),
                             session),
     by_project |-> DictAppend(m.by_project,
                               SessionGet(session, "project", PyStr("unknown")),
                               session)]

Durations(sessions) ==
    [i \in 1..Len(sessions) |->
        NumInt(SessionGet(sessions[i], "duration_seconds", Num(0, 0)))]

Tokens(sessions, class) ==
    [i \in 1..Len(sessions) |->
        SessionGet(sessions[i], "tokens",
                   [input |-> 0, output |-> 0, cached |-> 0, reasoning |-> 0])[class]]

Counts(sessions, key) ==
    [i \in 1..Len(sessions) |-> SessionGet(sessions[i], key, 0)]

\* min(timestamps) / max(timestamps): "<" raises TypeError unless all are
\* datetimes of one awareness (a single element is compared with nothing)
Orderable(timestamps) ==
    \/ Len(timestamps) = 1
    \/ \A i \in 1..Len(timestamps) :
          /\ timestamps[i] # None
          /\ timestamps[i].aware = timestamps[1].aware

SeqMin(timestamps) ==
    IF Len(timestamps) = 1 THEN timestamps[1]
    ELSE timestamps[CHOOSE i \in 1..Len(timestamps) :
            /\ \A j \in 1..Len(timestamps) : ~NumLt(timestamps[j].t, timestamps[i].t)
            /\ \A j \in 1..(i - 1) : NumLt(timestamps[i].t, timestamps[j].t)]

SeqMax(timestamps) ==
    IF Len(timestamps) = 1 THEN timestamps[1]
    ELSE timestamps[CHOOSE i \in 1..Len(timestamps) :
            /\ \A j \in 1..Len(timestamps) : ~NumLt(timestamps[i].t, timestamps[j].t)
            /\ \A j \in 1..(i - 1) : NumLt(timestamps[j].t, timestamps[i].t)]

SecondsPerDay == 86400
SecondsPerHour == 3600

\* lines 68-75
time_range(sessions) ==
    LET timestamps == SelectSeq([i \in 1..Len(sessions) |->
                                    SessionGet(sessions[i], "start_time", NotReturned)],
                                LAMBDA t : t # NotReturned)
    IN  IF timestamps = <<>> THEN None
        ELSE IF ~Orderable(timestamps) THEN Raise("TypeError")
        ELSE [first |-> SeqMin(timestamps),
              last |-> SeqMax(timestamps),
              span_days |->
                IF Len(timestamps) > 1
                THEN NumInt(NumSub(SeqMax(timestamps).t, SeqMin(timestamps).t))
                        \div SecondsPerDay
                ELSE 0]

\* SessionMetrics.calculate_total_analytics
calculate_total_analytics(m) ==
    LET total_sessions == Len(m.sessions)
        total_duration == SumSeq(Durations(m.sessions))
        total_messages == SumSeq(Counts(m.sessions, "message_count"))
        range == time_range(m.sessions)
    IN  IF IsRaise(range) THEN range
        ELSE [total_sessions |-> total_sessions,
              total_duration_hours |-> Rounded(total_duration, SecondsPerHour, 2),
              total_tokens |->
                [input |-> SumSeq(Tokens(m.sessions, "input")),
                 output |-> SumSeq(Tokens(m.sessions, "output")),
                 cached |-> SumSeq(Tokens(m.sessions, "cached")),
                 reasoning |-> SumSeq(Tokens(m.sessions, "reasoning"))],
              total_messages |-> total_messages,
              total_tool_calls |-> SumSeq(Counts(m.sessions, "tool_call_count")),
              avg_session_duration_minutes |->
                Rounded(total_duration, Max(total_sessions, 1) * 60, 2),
              avg_messages_per_session |->
                Rounded(total_messages, Max(total_sessions, 1), 2),
              time_range |-> range]

\* sorted(rows, key=count, reverse=True) on rows <<item, count>>: a stable
\* sort, so rows of equal count keep the order they have in rows
\* an insertion that puts a row before the rows of equal count
RECURSIVE InsertBeforeEqual(_, _)
InsertBeforeEqual(sorted, row) ==
    IF sorted = <<>> THEN <<row>>
    ELSE IF sorted[1][2] > row[2]
    THEN <<sorted[1]>> \o InsertBeforeEqual(Tail(sorted), row)
    ELSE <<row>> \o sorted

RECURSIVE InsertByCount(_, _)
InsertByCount(sorted, row) ==
    IF sorted = <<>> THEN <<row>>
    ELSE IF sorted[1][2] >= row[2]
    THEN <<sorted[1]>> \o InsertByCount(Tail(sorted), row)
    ELSE <<row>> \o sorted

RECURSIVE SortedByCount(_)
SortedByCount(rows) ==
    IF rows = <<>> THEN <<>>
    ELSE InsertByCount(SortedByCount(SubSeq(rows, 1, Len(rows) - 1)),
                       rows[Len(rows)])

\* Counter(s.get('agent', 'unknown') for s in sessions), as a dict
agents_used(sessions) ==
    LET agents == { SessionGet(sessions[i], "agent", "unknown") : i \in 1..Len(sessions) }
    IN  [a \in agents |->
            Cardinality({ i \in 1..Len(sessions) :
                            SessionGet(sessions[i], "agent", "unknown") = a })]

\* lines 96-106: the entry of one project
project_entry(sessions) ==
    LET total_duration == SumSeq(Durations(sessions))
    IN  [session_count |-> Len(sessions),
         agents_used |-> agents_used(sessions),
         total_duration_hours |-> Rounded(total_duration, SecondsPerHour, 2),
         total_tokens |-> SumSeq(Tokens(sessions, "input"))
                          + SumSeq(Tokens(sessions, "output")),
         avg_session_duration_minutes |->
            Rounded(total_duration, Max(Len(sessions), 1) * 60, 2)]

\* SessionMetrics.calculate_by_project_analytics: the result dict as its items
calculate_by_project_analytics(m) ==
    LET kept == SelectSeq(m.by_project.items, LAMBDA it : it[1] # PyStr("unknown"))
        results == [i \in 1..Len(kept) |-> <<kept[i][1], project_entry(kept[i][2])>>]
        sorted == SortedByCount([i \in 1..Len(results) |->
                                    <<results[i], results[i][2].session_count>>])
    IN  [i \in 1..Len(sorted) |-> sorted[i][1]]

\* lines 121-144: the entry of one agent
agent_entry(sessions) ==
    LET n == Max(Len(sessions), 1)
        total_tokens_in == SumSeq(Tokens(sessions, "input"))
        total_tokens_out == SumSeq(Tokens(sessions, "output"))
        response_times ==
            SelectSeq(sessions, LAMBDA x : "avg_response_time_seconds" \in DOMAIN x)
    IN  [session_count |-> Len(sessions),
         avg_session_duration_minutes |-> Rounded(SumSeq(Durations(sessions)), n * 60, 2),
         avg_messages_per_session |->
            Rounded(SumSeq(Counts(sessions, "message_count")), n, 2),
         avg_tool_calls_per_session |->
            Rounded(SumSeq(Counts(sessions, "tool_call_count")), n, 2),
         token_efficiency |->
            [avg_input_per_session |-> Rounded(total_tokens_in, n, 0),
             avg_output_per_session |-> Rounded(total_tokens_out, n, 0),
             output_to_input_ratio |->
                Rounded(total_tokens_out, Max(total_tokens_in, 1), 3)],
         avg_response_time_seconds |->
            IF response_times # <<>>
            THEN PyInt(Rounded(SumSeq([i \in 1..Len(response_times) |->
                                    response_times[i].avg_response_time_seconds]),
                               Max(Len(response_times), 1), 2))
            ELSE None]

\* SessionMetrics.calculate_inter_agent_analytics: the result dict as its items
calculate_inter_agent_analytics(m) ==
    LET kept == SelectSeq(m.by_agent.items,
                          LAMBDA it : it[1] # "unknown" /\ it[2] # <<>>)
    IN  [i \in 1..Len(kept) |-> <<kept[i][1], agent_entry(kept[i][2])>>]

DayNames ==
    <<"Monday", "Tuesday", "Wednesday", "Thursday", "Friday", "Saturday", "Sunday">>

\* start_time.hour and start_time.strftime('%A'); 1970-01-01 was a Thursday
HourOf(dt) == (NumInt(dt.t) \div SecondsPerHour) % 24
DayOf(dt) == DayNames[(((NumInt(dt.t) \div SecondsPerDay) + 3) % 7) + 1]

\* lines 157-172, the histograms: sessions_by_hour and sessions_by_day after
\* the sessions up to the i-th; .hour on None raises AttributeError
RECURSIVE Histograms(_, _)
Histograms(sessions, i) ==
    IF i = 0 THEN [by_hour |-> PyDict(<<>>), by_day |-> PyDict(<<>>)]
    ELSE LET before == Histograms(sessions, i - 1)
             t == SessionGet(sessions[i], "start_time", NotReturned)
         IN  IF IsRaise(before) \/ t = NotReturned THEN before
             ELSE IF t = None THEN Raise("AttributeError")
             ELSE [by_hour |-> DictCount(before.by_hour, HourOf(t)),
                   by_day |-> DictCount(before.by_day, DayOf(t))]

Take(q, n) == SubSeq(q, 1, Min(n, Len(q)))

PeakCount == 3

\* the top hours with ties ordered by ascending hour number
peak_hours_by_key(histogram) ==
    LET rows == histogram.items
        Before(a, b) == a[2] > b[2] \/ (a[2] = b[2] /\ a[1] < b[1])
        Rank(r) == Cardinality({ j \in 1..Len(rows) : Before(rows[j], r) })
    IN  Take([i \in 1..Len(rows) |->
                CHOOSE r \in { rows[j] : j \in 1..Len(rows) } : Rank(r) = i - 1],
             PeakCount)

\* line 179: sorted(sessions_by_hour.items(), key=count, reverse=True)[:3]
peak_hours(histogram) == Take(SortedByCount(histogram.items), PeakCount)

\* line 180: sorted(sessions_by_day.items(), key=count, reverse=True)[:3]
peak_days(histogram) == Take(SortedByCount(histogram.items), PeakCount)

\* f"{h:02d}:00 ({count} sessions)"
HourLabel(h, count) ==
    (IF h < 10 THEN "0" ELSE "") \o ToString(h) \o ":00 (" \o ToString(count)
    \o " sessions)"

\* f"{day} ({count} sessions)"
DayLabel(day, count) == day \o " (" \o ToString(count) \o " sessions)"

\* the mean of a precomputed figure with every session counted in the divisor
FigureAverageOverAll(sessions, key, places) ==
    LET having == SelectSeq(sessions, LAMBDA x : key \in DOMAIN x)
    IN  IF having # <<>>
        THEN PyInt(Rounded(SumSeq([i \in 1..Len(having) |-> having[i][key]]),
                           Max(Len(sessions), 1), places))
        ELSE None

\* the mean of a precomputed figure with 0 where no session exposes it
FigureAverageOrZero(sessions, key, places) ==
    LET having == SelectSeq(sessions, LAMBDA x : key \in DOMAIN x)
    IN  PyInt(Rounded(SumSeq([i \in 1..Len(having) |-> having[i][key]]),
                      Max(Len(having), 1), places))

\* the mean of a precomputed figure over the sessions that expose it, or None
FigureAverage(sessions, key, places) ==
    LET having == SelectSeq(sessions, LAMBDA x : key \in DOMAIN x)
    IN  IF having # <<>>
        THEN PyInt(Rounded(SumSeq([i \in 1..Len(having) |-> having[i][key]]),
                           Max(Len(having), 1), places))
        ELSE None

\* SessionMetrics.calculate_human_performance
calculate_human_performance(m) ==
    LET hist == Histograms(m.sessions, Len(m.sessions))
        completed == Len(SelectSeq(m.sessions,
                            LAMBDA x : SessionGet(x, "has_end_time", FALSE)))
        abandoned == Len(SelectSeq(m.sessions,
                            LAMBDA x : ~SessionGet(x, "has_end_time", FALSE)))
        top_hours == peak_hours(hist.by_hour)
        top_days == peak_days(hist.by_day)
    IN  IF IsRaise(hist) THEN hist
        ELSE [total_sessions |-> Len(m.sessions),
              completed_sessions |-> completed,
              abandoned_sessions |-> abandoned,
              completion_rate |-> Rounded(completed * 100, Max(Len(m.sessions), 1), 1),
              avg_user_prompt_length |->
                FigureAverage(m.sessions, "avg_user_message_length", 0),
              avg_thinking_time_seconds |->
                FigureAverage(m.sessions, "avg_thinking_time_seconds", 2),
              peak_productivity_hours |->
                [i \in 1..Len(top_hours) |-> HourLabel(top_hours[i][1], top_hours[i][2])],
              peak_productivity_days |->
                [i \in 1..Len(top_days) |-> DayLabel(top_days[i][1], top_days[i][2])],
              sessions_by_hour |-> hist.by_hour]

\* SessionMetrics.calculate_all: the four views in order; the first exception
\* leaves the call
calculate_all(m) ==
    LET scope1 == calculate_total_analytics(m)
        scope4 == calculate_human_performance(m)
    IN  IF IsRaise(scope1) THEN scope1
        ELSE IF IsRaise(scope4) THEN scope4
        ELSE [k |-> "report",
              scope1_total_analytics |-> scope1,
              scope2_by_project |-> calculate_by_project_analytics(m),
              scope3_inter_agent |-> calculate_inter_agent_analytics(m),
              scope4_human_performance |-> scope4]

(***************************************************************************)
(* The sessions that collect_sample_sessions hands to SessionMetrics: what *)
(* parse_codex_session returns for the files below.                        *)
(***************************************************************************)
Event(timestamp, type, payload) ==
    PyDict(<< <<"timestamp", timestamp>>, <<"type", PyStr(type)>>,
              <<"payload", PyDict(payload)>> >>)

SampleFiles ==
    { [name |-> "rollout-1.jsonl", readable |-> TRUE, lines |->
          << Event(PyStr("2024-01-01T10:00:00Z"), "session_meta",
                   << <<"cwd", PyStr("/home/u/repoA")>> >>),
             Event(PyStr("2024-01-02T14:30:00Z"), "response_item",
                   << <<"type", PyStr("function_call")>> >>) >>],
      [name |-> "rollout-2.jsonl", readable |-> TRUE, lines |->
          << Event(PyStr("2024-01-01T09:00:00Z"), "response_item",
                   << <<"type", PyStr("message")>> >>) >>],
      [name |-> "rollout-3.jsonl", readable |-> TRUE, lines |->
          << Event(PyStr("2024-01-02T14:30:00Z"), "event_msg",
                   << <<"type", PyStr("token_count")>>,
                      <<"info", PyDict(<< <<"last_token_usage", TokenUsage>> >>)>>,
                      <<"cwd", PyStr("/srv/repoB/")>> >>) >>],
      [name |-> "rollout-4.jsonl", readable |-> TRUE, lines |->
          << Event(PyInt(1704096000), "turn_context",
                   << <<"cwd", PyStr("/home/u/repoA")>> >>) >>],
      [name |-> "rollout-5.jsonl", readable |-> TRUE, lines |->
          << Event(PyStr("2024-01-06T22:00:00Z"), "session_meta",
                   << <<"cwd", PyStr("/srv/repoB/")>> >>) >>],
      [name |-> "rollout-6.jsonl", readable |-> TRUE, lines |->
          << BlankLine,
             Event(PyStr("2024-01-03T09:15:00Z"), "response_item",
                   << <<"type", PyStr("message")>> >>) >>],
      [name |-> "rollout-7.jsonl", readable |-> TRUE, lines |-> << MalformedLine >>] }

SampleSessions == { parse_codex_session(f) : f \in SampleFiles } \ {None}

NoReport == [k |-> "none"]

MetricsIdle ==
    /\ metrics = NewMetrics
    /\ report = NoReport

MetricsInit == MetricsIdle

\* metrics.add_session(session)
AddSession(session) ==
    /\ Len(metrics.sessions) < MaxSessions
    /\ metrics' = add_session(metrics, session)
    /\ report' = NoReport
    /\ UNCHANGED notMetrics

\* a calculate_all that empties the groupings it has read
CalculateAllDraining ==
    /\ report' = calculate_all(metrics)
    /\ metrics' = [metrics EXCEPT !.by_agent = PyDict(<<>>),
                                  !.by_project = PyDict(<<>>)]
    /\ UNCHANGED notMetrics

\* results = metrics.calculate_all(); an exception is kept as the outcome
CalculateAll ==
    /\ report' = calculate_all(metrics)
    /\ UNCHANGED metrics
    /\ UNCHANGED notMetrics

MetricsNext ==
    \/ \E session \in SampleSessions : AddSession(session)
    \/ CalculateAll

(***************************************************************************)
(* Properties of SessionMetrics.                                           *)
(***************************************************************************)
\* C1: the per-project view holds no entry for records whose project is
\* unresolved (None): every key of the view is a project name.
C1_UnresolvedProjectExcluded ==
    LET view == calculate_by_project_analytics(metrics)
    IN  \A i \in 1..Len(view) : view[i][1] # None

\* the stored sessions that have a start timestamp
WithStart ==
    SelectSeq(metrics.sessions,
              LAMBDA x : "start_time" \in DOMAIN x /\ x.start_time # None)

\* C7: calculate_all never fails on a record whose start_time is absent, and
\* time_range and the hour histogram are those of the records that have a
\* start timestamp.
C7_AbsentStartTimeSkipped ==
    report # NoReport =>
        /\ ~IsRaise(report)
        /\ report.scope1_total_analytics.time_range = time_range(WithStart)
        /\ report.scope4_human_performance.sessions_by_hour
             = Histograms(WithStart, Len(WithStart)).by_hour

\* the hours and the weekday names of the stored sessions, in session order
StartHours == [i \in 1..Len(metrics.sessions) |-> HourOf(metrics.sessions[i].start_time)]
StartDays == [i \in 1..Len(metrics.sessions) |-> DayOf(metrics.sessions[i].start_time)]

Occurrences(q, x) == Cardinality({ i \in 1..Len(q) : q[i] = x })
FirstSeen(q, x) == CHOOSE i \in 1..Len(q) : q[i] = x /\ \A j \in 1..(i - 1) : q[j] # x
Buckets(q) == { q[i] : i \in 1..Len(q) }

\* the buckets of q in the order Before, cut to the first three, as
\* <<bucket, count>>
TopBuckets(q, Before(_, _)) ==
    LET Rank(x) == Cardinality({ y \in Buckets(q) : Before(y, x) })
    IN  [n \in 1..Min(PeakCount, Cardinality(Buckets(q))) |->
            LET x == CHOOSE y \in Buckets(q) : Rank(y) = n - 1
            IN  <<x, Occurrences(q, x)>>]

\* descending count, ties by first-seen order
ByCountThenFirstSeen(q, x, y) ==
    \/ Occurrences(q, x) > Occurrences(q, y)
    \/ Occurrences(q, x) = Occurrences(q, y) /\ FirstSeen(q, x) < FirstSeen(q, y)

\* descending count, ties by ascending hour number
ByCountThenHour(q, x, y) ==
    \/ Occurrences(q, x) > Occurrences(q, y)
    \/ Occurrences(q, x) = Occurrences(q, y) /\ x < y

HourLabels(top) == [i \in 1..Len(top) |-> HourLabel(top[i][1], top[i][2])]
DayLabels(top) == [i \in 1..Len(top) |-> DayLabel(top[i][1], top[i][2])]

ProjectOf(session) == SessionGet(session, "project", PyStr("unknown"))

\* the position in self.sessions of the first session of the project
FirstSessionOf(project) ==
    CHOOSE i \in 1..Len(metrics.sessions) :
        /\ ProjectOf(metrics.sessions[i]) = project
        /\ \A j \in 1..(i - 1) : ProjectOf(metrics.sessions[j]) # project

ByProject == calculate_by_project_analytics(metrics)

\* C20: the by-project view lists the projects in descending order of session
\* count, and projects of equal session count in the order in which add_session
\* first saw them
C20_ProjectsByCountThenFirstSeen ==
    \A i, j \in 1..Len(ByProject) :
        i < j =>
            /\ ByProject[i][2].session_count >= ByProject[j][2].session_count
            /\ ByProject[i][2].session_count = ByProject[j][2].session_count
                  => FirstSessionOf(ByProject[i][1]) < FirstSessionOf(ByProject[j][1])

\* three projects are listed, two of them with equal counts, and the project
\* seen first is not the one listed first
C20_Witness ==
    /\ Len(ByProject) >= 3
    /\ \E i, j \in 1..Len(ByProject) :
          i < j /\ ByProject[i][2].session_count = ByProject[j][2].session_count
    /\ FirstSessionOf(ByProject[1][1]) > 1

\* a fresh SessionMetrics given the first n of the records, in order
RECURSIVE Replayed(_, _)
Replayed(sessions, n) ==
    IF n = 0 THEN NewMetrics
    ELSE add_session(Replayed(sessions, n - 1), sessions[n])

FigureSessions ==
    { [agent |-> "codex", project |-> PyStr("repoA"),
       avg_response_time_seconds |-> 2, avg_user_message_length |-> 10,
       avg_thinking_time_seconds |-> 3],
      [agent |-> "codex", project |-> PyStr("repoA")],
      [agent |-> "claude", project |-> PyStr("repoB"),
       avg_response_time_seconds |-> 5],
      [agent |-> "claude", project |-> PyStr("repoB"),
       avg_user_message_length |-> 25, avg_thinking_time_seconds |-> 8] }

FiguresNext ==
    \/ \E session \in FigureSessions : AddSession(session)
    \/ CalculateAll

\* the records of the group that expose the figure
Exposing(sessions, key) == { i \in 1..Len(sessions) : key \in DOMAIN sessions[i] }

\* the sum of the figure over the first n records, those without it adding 0
RECURSIVE FigureSum(_, _, _)
FigureSum(sessions, key, n) ==
    IF n = 0 THEN 0
    ELSE FigureSum(sessions, key, n - 1)
         + (IF key \in DOMAIN sessions[n] THEN sessions[n][key] ELSE 0)

\* the average over the exposing records only, None when there is none
ExpectedAverage(sessions, key, places) ==
    IF Exposing(sessions, key) = {} THEN None
    ELSE PyInt(Rounded(FigureSum(sessions, key, Len(sessions)),
                       Cardinality(Exposing(sessions, key)), places))

SessionsOfAgent(agent) ==
    SelectSeq(metrics.sessions, LAMBDA x : SessionGet(x, "agent", "unknown") = agent)

\* C21: in every report, each average of a precomputed figure is the sum over
\* the records exposing the figure divided by their number, records without
\* the figure counting in neither, and None when no record of the group
\* exposes the figure
C21_FigureAveragesOverExposingRecords ==
    report # NoReport =>
        /\ ~IsRaise(report)
        /\ report.scope4_human_performance.avg_user_prompt_length =
              ExpectedAverage(metrics.sessions, "avg_user_message_length", 0)
        /\ report.scope4_human_performance.avg_thinking_time_seconds =
              ExpectedAverage(metrics.sessions, "avg_thinking_time_seconds", 2)
        /\ \A i \in 1..Len(report.scope3_inter_agent) :
              report.scope3_inter_agent[i][2].avg_response_time_seconds =
                  ExpectedAverage(SessionsOfAgent(report.scope3_inter_agent[i][1]),
                                  "avg_response_time_seconds", 2)

\* a report over records of which some expose a figure and some do not, with
\* an agent none of whose records exposes a response time
C21_Witness ==
    /\ report # NoReport
    /\ ~IsRaise(report)
    /\ Exposing(metrics.sessions, "avg_user_message_length") # {}
    /\ Cardinality(Exposing(metrics.sessions, "avg_user_message_length"))
          < Len(metrics.sessions)
    /\ report.scope4_human_performance.avg_user_prompt_length # None
    /\ \E i \in 1..Len(report.scope3_inter_agent) :
          report.scope3_inter_agent[i][2].avg_response_time_seconds = None
    /\ \E i \in 1..Len(report.scope3_inter_agent) :
          /\ report.scope3_inter_agent[i][2].avg_response_time_seconds # None
          /\ Cardinality(Exposing(SessionsOfAgent(report.scope3_inter_agent[i][1]),
                                  "avg_response_time_seconds"))
                < report.scope3_inter_agent[i][2].session_count

\* calculate_all has returned its report for a SessionMetrics without sessions
ReportOfNoSessions ==
    /\ metrics.sessions = <<>>
    /\ report # NoReport

\* the totals, the averages of the total view and the completion rate are 0
\* and the per-agent view has no entry
ZeroTotals(r) ==
    /\ r.scope1_total_analytics.total_sessions = 0
    /\ r.scope1_total_analytics.total_duration_hours = 0
    /\ r.scope1_total_analytics.total_tokens =
          [input |-> 0, output |-> 0, cached |-> 0, reasoning |-> 0]
    /\ r.scope1_total_analytics.total_messages = 0
    /\ r.scope1_total_analytics.total_tool_calls = 0
    /\ r.scope1_total_analytics.avg_session_duration_minutes = 0
    /\ r.scope1_total_analytics.avg_messages_per_session = 0
    /\ r.scope2_by_project = <<>>
    /\ r.scope3_inter_agent = <<>>
    /\ r.scope4_human_performance.total_sessions = 0
    /\ r.scope4_human_performance.completed_sessions = 0
    /\ r.scope4_human_performance.abandoned_sessions = 0
    /\ r.scope4_human_performance.completion_rate = 0

\* C18 as stated: calculate_all on zero sessions raises nothing, and all the
\* totals, all the averages and the completion rate of its report are 0
C18_AllAveragesZero ==
    ReportOfNoSessions =>
        /\ ~IsRaise(report)
        /\ ZeroTotals(report)
        /\ report.scope4_human_performance.avg_user_prompt_length = PyInt(0)
        /\ report.scope4_human_performance.avg_thinking_time_seconds = PyInt(0)

\* C18 amended: calculate_all on zero sessions raises nothing; the totals, the
\* averages of the total view and the completion rate are 0, no agent is
\* reported, and the two averages over precomputed figures are None
C18_ZeroSessionsReport ==
    ReportOfNoSessions =>
        /\ ~IsRaise(report)
        /\ ZeroTotals(report)
        /\ report.scope4_human_performance.avg_user_prompt_length = None
        /\ report.scope4_human_performance.avg_thinking_time_seconds = None

\* the report of a SessionMetrics without sessions has been computed
C18_Witness ==
    /\ ReportOfNoSessions
    /\ report = calculate_all(NewMetrics)
    /\ report.k = "report"

CatalogIdle ==
    /\ catalog = NewCatalog
    /\ scan = [status |-> "idle", file |-> 0, lines |-> 0]
    /\ seen_in = <<>>
    /\ snapshot = NewCatalog
    /\ outcome = "none"

(***************************************************************************)
(* collect_sample_sessions: the loop over the batch of Codex files.        *)
(***************************************************************************)
\* files that yield no session: one that cannot be read, one that is empty,
\* one of blank and unparseable lines only, one whose event is no object
BrokenFiles ==
    { [name |-> "rollout-8.jsonl", readable |-> FALSE, lines |->
          << Event(PyStr("2024-01-04T11:00:00Z"), "response_item",
                   << <<"type", PyStr("message")>> >>) >>],
      [name |-> "rollout-9.jsonl", readable |-> TRUE, lines |-> <<>>],
      [name |-> "rollout-10.jsonl", readable |-> TRUE, lines |->
          << BlankLine, MalformedLine >>],
      [name |-> "rollout-11.jsonl", readable |-> TRUE, lines |->
          << PyList(<< PyInt(1) >>) >>] }

BatchFiles ==
    { f \in SampleFiles : f.name \in {"rollout-1.jsonl", "rollout-2.jsonl",
                                      "rollout-6.jsonl", "rollout-7.jsonl"} }
    \cup BrokenFiles

\* the lists of up to MaxBatch distinct files
Batches ==
    { b \in UNION { [1..n -> BatchFiles] : n \in 0..MaxBatch } :
          \A i, j \in 1..Len(b) : b[i] = b[j] => i = j }

CollectIdle ==
    /\ codex_files = <<>>
    /\ collect = [pc |-> "loop", i |-> 0, sessions |-> <<>>]

\* sessions = []; codex_files = sorted(...)[:limit_per_agent]
CollectInit ==
    /\ codex_files \in Batches
    /\ collect = [pc |-> "loop", i |-> 0, sessions |-> <<>>]

\* one iteration of "for f in codex_files"
CollectFile ==
    /\ collect.pc = "loop"
    /\ collect.i < Len(codex_files)
    /\ \E session \in {parse_codex_session(codex_files[collect.i + 1])} :
          collect' = [collect EXCEPT
                         !.i = @ + 1,
                         !.sessions = IF session # None THEN Append(@, session)
                                      ELSE @]
    /\ UNCHANGED codex_files
    /\ UNCHANGED notCollect

\* return sessions
CollectReturn ==
    /\ collect.pc = "loop"
    /\ collect.i = Len(codex_files)
    /\ collect' = [collect EXCEPT !.pc = "done"]
    /\ UNCHANGED codex_files
    /\ UNCHANGED notCollect

CollectNext ==
    \/ CollectFile
    \/ CollectReturn

\* the file yields no events: it cannot be read, or none of its lines parses
NoEvents(file) ==
    \/ ~file.readable
    \/ \A i \in 1..Len(file.lines) : file.lines[i] \in {BlankLine, MalformedLine}

\* the session records of the first n files of the batch, in order
RECURSIVE SessionsOf(_)
SessionsOf(n) ==
    IF n = 0 THEN <<>>
    ELSE LET session == parse_codex_session(codex_files[n])
         IN  IF session = None THEN SessionsOf(n - 1)
             ELSE Append(SessionsOf(n - 1), session)

FoldsNext ==
    \/ ClaudeIdle /\ CodexNext
    \/ cx.pc = "open" /\ ClaudeNext

\* start_time and end_time are absent together, and in order when present
TimesConsistent(r) ==
    /\ r.start_time = None <=> r.end_time = None
    /\ r.start_time # None /\ r.end_time # None
          => ~NumLt(r.end_time.t, r.start_time.t)

\* parse_codex_session resolves the timestamp of the event
CodexResolves(event) ==
    /\ event.k = "dict"
    /\ DictGet(event, "timestamp", None).k = "str"
    /\ Truthy(DictGet(event, "timestamp", None))
    /\ ~IsRaise(fromisoformat(str_replace(DictGet(event, "timestamp", None).s,
                                          "Z", "+00:00")))

InitCatalog == CatalogInit /\ TimestampIdle /\ CodexIdle /\ MetricsIdle /\ ExtractionIdle /\ ClaudeIdle /\ CollectIdle
SpecCatalog == InitCatalog /\ [][CatalogNext]_vars

SpecLists == InitCatalog /\ [][ListsNext]_vars

InitTimestamp == TimestampInit /\ CatalogIdle /\ CodexIdle /\ MetricsIdle /\ ExtractionIdle /\ ClaudeIdle /\ CollectIdle
SpecTimestamp == InitTimestamp /\ [][TimestampNext]_vars

InitCodex == CodexInit /\ CatalogIdle /\ TimestampIdle /\ MetricsIdle /\ ExtractionIdle /\ ClaudeIdle /\ CollectIdle
SpecCodex == InitCodex /\ [][CodexNext]_vars

InitExtraction ==
    ExtractionInit /\ CatalogIdle /\ TimestampIdle /\ CodexIdle /\ MetricsIdle
    /\ ClaudeIdle /\ CollectIdle
SpecExtraction == InitExtraction /\ [][ExtractionNext]_vars

InitClaude ==
    ClaudeInit /\ CatalogIdle /\ TimestampIdle /\ CodexIdle /\ MetricsIdle
    /\ ExtractionIdle /\ CollectIdle
SpecClaude == InitClaude /\ [][ClaudeNext]_vars

InitMetrics == MetricsInit /\ CatalogIdle /\ TimestampIdle /\ CodexIdle /\ ExtractionIdle /\ ClaudeIdle /\ CollectIdle
SpecMetrics == InitMetrics /\ [][MetricsNext]_vars

InitFolds == InitCodex \/ InitClaude
SpecFolds == InitFolds /\ [][FoldsNext]_vars

SpecFigures == InitMetrics /\ [][FiguresNext]_vars

InitCollect ==
    CollectInit /\ CatalogIdle /\ TimestampIdle /\ CodexIdle /\ MetricsIdle
    /\ ExtractionIdle /\ ClaudeIdle
SpecCollect == InitCollect /\ [][CollectNext]_vars

====
